---- MODULE Spec2Model ----
(***************************************************************************)
(* Verification model of the KAPLAY runtime core: the ButtonState edge /   *)
(* level tracker, the input reconciliation loop, the frame scheduler and   *)
(* the SDL audio playback handles (sound and music).                       *)
(*                                                                         *)
(* The module holds several specifications over one set of variables.      *)
(* Each specification drives one component and leaves the variables of     *)
(* the other components at their initial values:                           *)
(*   SpecButton  one ButtonState instance and its four methods             *)
(*   SpecFrame   the fixed-timestep frame scheduler (run / frame)          *)
(*   SpecStop    the frame scheduler with the stopped flag being set       *)
(*   SpecHidden  the frame scheduler with the hidden flag being set        *)
(*   SpecQuit    the frame scheduler with quit(), onCleanup() and the      *)
(*               end-of-frame event                                        *)
(*   SpecInput   keyboard, mouse and wheel callbacks, processInput and     *)
(*               resetInput, with no gamepad attached                      *)
(*   SpecPointer the same callbacks for one key and one mouse button, and  *)
(*               the mouse-move callback                                   *)
(*   SpecDevices one key and the gamepad poll, with controllers being      *)
(*               attached, unplugged and pressed                           *)
(*   SpecAudio   a sound or music playback handle on a stereo device, its  *)
(*               render timers, the device queue and the clock             *)
(*   SpecPair    two playback handles sharing the device                   *)
(*   SpecMix     a playback handle whose volume and pan are given as       *)
(*               options and reassigned while it renders                   *)
(*   SpecRate    a playback handle whose speed and detune are given as     *)
(*               options and reassigned while it renders, with buffers     *)
(*               that may be empty                                         *)
(*   SpecSeek    a playback handle that is sought before, inside and past  *)
(*               its buffer                                                *)
(***************************************************************************)
EXTENDS Integers, Sequences, FiniteSets, TLC

VARIABLES
    bs,         \* SpecButton: a ButtonState instance
    hist,       \* SpecButton: the last HistLen method calls made on bs (history)
    \* app state read and written by the frame scheduler
    stopped, isHidden, skipTime, dt, restDt, time, numFrames,
    desiredDt,              \* 1 / opt.maxFPS, or 0 without a cap
    started,                \* run() has been called
    loopPending,            \* a setImmediate(frame) is outstanding
    fixedAccumulatedDt,     \* local of run()
    accumulatedDt,          \* local of run()
    nFixed,                 \* calls of the fixedUpdate callback so far
    nUpdate,                \* calls of the update callback so far
    \* app state read and written by the input handlers
    keyState, mouseState, buttonState, mergedGamepadState, gamepadStates,
    gamepads, lastInputDevice, charInputted, isMouseMoved, mousePos,
    mouseDeltaPos, capsOn,
    inputQueue,             \* the once-handlers registered for "input"
    phase,                  \* "collect" between frames, "update" inside one
    log,                    \* the notifications emitted in the current frame
    sdlDevices,             \* sdl.controller.devices, the live device list
    polled,                 \* history: the device list the latest poll read
                            \* and whether the poll before read the same
    moves,                  \* history: the mouse moves raised since the
                            \* latest input processing
    ran,                    \* history: the deferred reactions the current
                            \* frame has run, in the order they ran
    heldKeys,               \* environment: the key codes physically held
    heldMouse,              \* environment: the mouse buttons physically held
    \* audio state
    handles,                \* the playback handles play() has returned
    queue,                  \* the device queue: the owner of each queued chunk
    now,                    \* Date.now()
    deviceChannels,         \* device.channels
    masterVolume,           \* _k.audio.masterVolume
    lastCall,               \* the latest call on a handle (history)
    \* shutdown state
    gc,                     \* _k.gc: the callbacks registered with onCleanup
    frameEndOnce,           \* once-handlers quit() has put on "frameEnd"
    gfxDestroyed,           \* ggl.destroy() has run
    windowDestroyed,        \* app.window.destroy() has run
    cleaned,                \* history: the cleanup callbacks that have run
    endBit,                 \* history: flips whenever "frameEnd" is triggered
    \* window events
    windowEvent             \* history: the latest event a window handler
                            \* triggered, the handler that did, and a bit
                            \* that flips with every trigger

buttonVars == <<bs, hist>>
frameVars == <<stopped, isHidden, skipTime, dt, restDt, time, numFrames,
               desiredDt, started, loopPending, fixedAccumulatedDt,
               accumulatedDt, nFixed, nUpdate>>
inputVars == <<keyState, mouseState, buttonState, mergedGamepadState,
               gamepadStates, gamepads, lastInputDevice, charInputted,
               isMouseMoved, mousePos, mouseDeltaPos, capsOn, inputQueue,
               phase, log, sdlDevices, polled, moves, ran, heldKeys, heldMouse>>
audioVars == <<handles, queue, now, deviceChannels, masterVolume, lastCall>>
quitVars == <<gc, frameEndOnce, gfxDestroyed, windowDestroyed, cleaned,
              endBit>>
windowVars == <<windowEvent>>
vars == <<buttonVars, frameVars, inputVars, audioVars, quitVars, windowVars>>

\* What a component leaves alone.
NotButton == <<frameVars, inputVars, audioVars, quitVars, windowVars>>
NotFrame == <<buttonVars, inputVars, audioVars, quitVars, windowVars>>
NotInput == <<buttonVars, frameVars, audioVars, quitVars, windowVars>>
NotAudio == <<buttonVars, frameVars, inputVars, quitVars, windowVars>>
NotQuit == <<buttonVars, inputVars, audioVars, windowVars>>
NotWindow == <<buttonVars, inputVars, audioVars, quitVars>>

(***************************************************************************)
(* ButtonState<T>                                                          *)
(***************************************************************************)

\* The symbols a stand-alone ButtonState is exercised with.
Symbols == {"a", "b", "c"}

\* new ButtonState(): four empty sets.
NewButtonState ==
    [pressed |-> {}, pressedRepeat |-> {}, released |-> {}, down |-> {}]

\* Mutant of update: forgets to clear the released set.
update_keepsReleased(b) ==
    [b EXCEPT !.pressed = {}, !.pressedRepeat = {}]

update(b) ==
    [b EXCEPT !.pressed = {}, !.released = {}, !.pressedRepeat = {}]

\* Mutant of press: records the edge but not the level.
press_noDown(b, btn) ==
    [b EXCEPT !.pressed = @ \cup {btn},
              !.pressedRepeat = @ \cup {btn}]

press(b, btn) ==
    [b EXCEPT !.pressed = @ \cup {btn},
              !.pressedRepeat = @ \cup {btn},
              !.down = @ \cup {btn}]

pressRepeat(b, btn) ==
    [b EXCEPT !.pressedRepeat = @ \cup {btn}]

\* Mutant of release: leaves the press edge of the same frame standing.
release_keepsPressed(b, btn) ==
    [b EXCEPT !.down = @ \ {btn},
              !.released = @ \cup {btn}]

\* Mutant of release: drops the symbol from down without recording the edge.
release_noEdge(b, btn) ==
    [b EXCEPT !.down = @ \ {btn},
              !.pressed = @ \ {btn}]

release(b, btn) ==
    [b EXCEPT !.down = @ \ {btn},
              !.pressed = @ \ {btn},
              !.released = @ \cup {btn}]

(***************************************************************************)
(* SpecButton: one ButtonState driven one method call per step, as the     *)
(* keyboard state is by key-down, key-repeat and key-up events and by      *)
(* resetInput.                                                             *)
(***************************************************************************)

\* How many of the last calls the history keeps.
HistLen == 3

Remember(call) ==
    IF Len(hist) < HistLen THEN Append(hist, call) ELSE Append(Tail(hist), call)

\* The call made last, and the one before it.
LastCall == hist[Len(hist)]
PrevCall == hist[Len(hist) - 1]
Call(o, s) == [op |-> o, sym |-> s]

InitButtonVars ==
    /\ bs = NewButtonState
    /\ hist = <<>>

BsPress(s) ==
    /\ bs' = press(bs, s)
    /\ hist' = Remember([op |-> "press", sym |-> s])
    /\ UNCHANGED NotButton

BsPressRepeat(s) ==
    /\ bs' = pressRepeat(bs, s)
    /\ hist' = Remember([op |-> "pressRepeat", sym |-> s])
    /\ UNCHANGED NotButton

BsRelease(s) ==
    /\ bs' = release(bs, s)
    /\ hist' = Remember([op |-> "release", sym |-> s])
    /\ UNCHANGED NotButton

BsUpdate ==
    /\ bs' = update(bs)
    /\ hist' = Remember([op |-> "update", sym |-> "none"])
    /\ UNCHANGED NotButton

NextButton ==
    \/ \E s \in Symbols : BsPress(s)
    \/ \E s \in Symbols : BsPressRepeat(s)
    \/ \E s \in Symbols : BsRelease(s)
    \/ BsUpdate


(***************************************************************************)
(* Frame scheduler.  Time is counted in units of 5 ms, so that fixedDt     *)
(* (1/50 s) and the stall clamp (0.25 s) are whole numbers.                *)
(***************************************************************************)

\* state.fixedDt = 1 / 50 s.
FixedDt == 4
\* Math.min(currentTime - lastTime, 0.25).
MaxRealDt == 50
\* state.timeScale.
TimeScale == 1
\* 1 / opt.maxFPS for the frame cap the model is run with (maxFPS = 100).
CappedDt == 2

\* The longest ordinary gap between two ticks, and a stall beyond the clamp.
MaxElapsed == 10
StallElapsed == 60
Elapsed == (0 .. MaxElapsed) \cup {StallElapsed}
\* Processed frames per behaviour.
MaxFrames == 3

Min_first(a, b) == a

Min(a, b) == IF a < b THEN a ELSE b

\* Mutant of DrainFixed: runs a step also when exactly one step is left.
RECURSIVE DrainFixed_inclusive(_, _)
DrainFixed_inclusive(acc, n) ==
    IF acc >= FixedDt THEN DrainFixed_inclusive(acc - FixedDt, n + 1)
    ELSE [rest |-> acc, calls |-> n]

\* Mutant of DrainFixed: after one fixed step the rest of the accumulator is
\* dropped.
RECURSIVE DrainFixed_dropsRest(_, _)
DrainFixed_dropsRest(acc, n) ==
    IF acc > FixedDt THEN [rest |-> 0, calls |-> n + 1]
    ELSE [rest |-> acc, calls |-> n]

\* while (fixedAccumulatedDt > state.fixedDt) { ... fixedUpdate() }:
\* what is left in the accumulator and how often fixedUpdate ran.
RECURSIVE DrainFixed(_, _)
DrainFixed(acc, n) ==
    IF acc > FixedDt THEN DrainFixed(acc - FixedDt, n + 1)
    ELSE [rest |-> acc, calls |-> n]

InitFrameVars ==
    /\ stopped = FALSE
    /\ isHidden = FALSE
    /\ skipTime = FALSE
    /\ dt = 0
    /\ restDt = 0
    /\ time = 0
    /\ numFrames = 0
    /\ desiredDt \in {0, CappedDt}
    /\ started = FALSE
    /\ loopPending = FALSE
    /\ fixedAccumulatedDt = 0
    /\ accumulatedDt = 0
    /\ nFixed = 0
    /\ nUpdate = 0

FrameBody_hiddenReturns(elapsed) ==
    IF stopped \/ isHidden THEN
        /\ loopPending' = FALSE
        /\ UNCHANGED <<skipTime, dt, restDt, time, numFrames,
                       fixedAccumulatedDt, accumulatedDt, nFixed, nUpdate>>
    ELSE
        LET realDt == Min(elapsed, MaxRealDt)
            acc == accumulatedDt + realDt
        IN  /\ loopPending' = TRUE
            /\ IF acc > desiredDt THEN
                    /\ IF ~skipTime THEN
                            LET d == DrainFixed(fixedAccumulatedDt + acc, 0)
                            IN  /\ fixedAccumulatedDt' = d.rest
                                /\ restDt' = d.rest
                                /\ dt' = acc
                                /\ time' = time + acc * TimeScale
                                /\ nFixed' = nFixed + d.calls
                        ELSE
                            UNCHANGED <<fixedAccumulatedDt, restDt, dt, time,
                                        nFixed>>
                    /\ accumulatedDt' = 0
                    /\ skipTime' = FALSE
                    /\ numFrames' = numFrames + 1
                    /\ nUpdate' = nUpdate + 1
                ELSE
                    /\ accumulatedDt' = acc
                    /\ UNCHANGED <<skipTime, dt, restDt, time, numFrames,
                                   fixedAccumulatedDt, nFixed, nUpdate>>

FrameBody_ignoresStopped(elapsed) ==
    IF isHidden THEN
        /\ loopPending' = TRUE
        /\ UNCHANGED <<skipTime, dt, restDt, time, numFrames,
                       fixedAccumulatedDt, accumulatedDt, nFixed, nUpdate>>
    ELSE
        LET realDt == Min(elapsed, MaxRealDt)
            acc == accumulatedDt + realDt
        IN  /\ loopPending' = TRUE
            /\ IF acc > desiredDt THEN
                    /\ IF ~skipTime THEN
                            LET d == DrainFixed(fixedAccumulatedDt + acc, 0)
                            IN  /\ fixedAccumulatedDt' = d.rest
                                /\ restDt' = d.rest
                                /\ dt' = acc
                                /\ time' = time + acc * TimeScale
                                /\ nFixed' = nFixed + d.calls
                        ELSE
                            UNCHANGED <<fixedAccumulatedDt, restDt, dt, time,
                                        nFixed>>
                    /\ accumulatedDt' = 0
                    /\ skipTime' = FALSE
                    /\ numFrames' = numFrames + 1
                    /\ nUpdate' = nUpdate + 1
                ELSE
                    /\ accumulatedDt' = acc
                    /\ UNCHANGED <<skipTime, dt, restDt, time, numFrames,
                                   fixedAccumulatedDt, nFixed, nUpdate>>

\* Mutant of FrameBody: a processed frame advances time whether or not the
\* skip-time flag is set.
FrameBody_ignoresSkipTime(elapsed) ==
    IF stopped THEN
        /\ loopPending' = FALSE
        /\ UNCHANGED <<skipTime, dt, restDt, time, numFrames,
                       fixedAccumulatedDt, accumulatedDt, nFixed, nUpdate>>
    ELSE IF isHidden THEN
        /\ loopPending' = TRUE
        /\ UNCHANGED <<skipTime, dt, restDt, time, numFrames,
                       fixedAccumulatedDt, accumulatedDt, nFixed, nUpdate>>
    ELSE
        LET realDt == Min(elapsed, MaxRealDt)
            acc == accumulatedDt + realDt
        IN  /\ loopPending' = TRUE
            /\ IF acc > desiredDt THEN
                    /\ LET d == DrainFixed(fixedAccumulatedDt + acc, 0)
                       IN  /\ fixedAccumulatedDt' = d.rest
                           /\ restDt' = d.rest
                           /\ dt' = acc
                           /\ time' = time + acc * TimeScale
                           /\ nFixed' = nFixed + d.calls
                    /\ accumulatedDt' = 0
                    /\ skipTime' = FALSE
                    /\ numFrames' = numFrames + 1
                    /\ nUpdate' = nUpdate + 1
                ELSE
                    /\ accumulatedDt' = acc
                    /\ UNCHANGED <<skipTime, dt, restDt, time, numFrames,
                                   fixedAccumulatedDt, nFixed, nUpdate>>

\* One call of frame(), `elapsed` after the previous one.
FrameBody(elapsed) ==
    IF stopped THEN
        /\ loopPending' = FALSE
        /\ UNCHANGED <<skipTime, dt, restDt, time, numFrames,
                       fixedAccumulatedDt, accumulatedDt, nFixed, nUpdate>>
    ELSE IF isHidden THEN
        /\ loopPending' = TRUE
        /\ UNCHANGED <<skipTime, dt, restDt, time, numFrames,
                       fixedAccumulatedDt, accumulatedDt, nFixed, nUpdate>>
    ELSE
        LET realDt == Min(elapsed, MaxRealDt)
            acc == accumulatedDt + realDt
        IN  /\ loopPending' = TRUE
            /\ IF acc > desiredDt THEN
                    /\ IF ~skipTime THEN
                            LET d == DrainFixed(fixedAccumulatedDt + acc, 0)
                            IN  /\ fixedAccumulatedDt' = d.rest
                                /\ restDt' = d.rest
                                /\ dt' = acc
                                /\ time' = time + acc * TimeScale
                                /\ nFixed' = nFixed + d.calls
                        ELSE
                            UNCHANGED <<fixedAccumulatedDt, restDt, dt, time,
                                        nFixed>>
                    /\ accumulatedDt' = 0
                    /\ skipTime' = FALSE
                    /\ numFrames' = numFrames + 1
                    /\ nUpdate' = nUpdate + 1
                ELSE
                    /\ accumulatedDt' = acc
                    /\ UNCHANGED <<skipTime, dt, restDt, time, numFrames,
                                   fixedAccumulatedDt, nFixed, nUpdate>>

\* run(fixedUpdate, update): zeroes the accumulators and calls frame() at once.
Run ==
    /\ ~started
    /\ started' = TRUE
    /\ FrameBody(0)
    /\ UNCHANGED <<stopped, isHidden, desiredDt>>
    /\ UNCHANGED NotFrame

\* A scheduled frame() runs.
Frame(elapsed) ==
    /\ started
    /\ loopPending
    /\ numFrames < MaxFrames
    /\ FrameBody(elapsed)
    /\ UNCHANGED <<stopped, isHidden, desiredDt, started>>
    /\ UNCHANGED NotFrame

\* No window handler has triggered an event yet.
InitWindowVars == windowEvent = [handler |-> "none", event |-> "none", bit |-> 0]

\* state.events.trigger(event) in the window handler `handler`.
Trigger(handler, event) ==
    windowEvent' = [handler |-> handler, event |-> event,
                    bit |-> 1 - windowEvent.bit]

\* opt.window.on("focus", ...).
WindowFocus ==
    /\ skipTime' = TRUE
    /\ isHidden' = FALSE
    /\ Trigger("focus", "show")
    /\ UNCHANGED <<stopped, dt, restDt, time, numFrames, desiredDt, started,
                   loopPending, fixedAccumulatedDt, accumulatedDt, nFixed,
                   nUpdate>>
    /\ UNCHANGED NotWindow

\* Mutant of WindowBlur: hides the app and triggers "hide".
WindowBlur_hides ==
    /\ isHidden' = TRUE
    /\ Trigger("blur", "hide")
    /\ UNCHANGED <<stopped, skipTime, dt, restDt, time, numFrames, desiredDt,
                   started, loopPending, fixedAccumulatedDt, accumulatedDt,
                   nFixed, nUpdate>>
    /\ UNCHANGED NotWindow

\* opt.window.on("blur", ...): the same body as the focus handler.
WindowBlur ==
    /\ skipTime' = TRUE
    /\ isHidden' = FALSE
    /\ Trigger("blur", "show")
    /\ UNCHANGED <<stopped, dt, restDt, time, numFrames, desiredDt, started,
                   loopPending, fixedAccumulatedDt, accumulatedDt, nFixed,
                   nUpdate>>
    /\ UNCHANGED NotWindow


NextFrame ==
    \/ Run
    \/ \E e \in Elapsed : Frame(e)
    \/ WindowFocus
    \/ WindowBlur

\* state.stopped = true, written by a holder of the app state (initApp hands
\* the state object out); quit() itself throws before its own assignment.
Stop ==
    /\ ~stopped
    /\ stopped' = TRUE
    /\ UNCHANGED <<isHidden, skipTime, dt, restDt, time, numFrames, desiredDt,
                   started, loopPending, fixedAccumulatedDt, accumulatedDt,
                   nFixed, nUpdate>>
    /\ UNCHANGED NotFrame

NextStop ==
    \/ Run
    \/ \E e \in Elapsed : Frame(e)
    \/ WindowFocus
    \/ WindowBlur
    \/ Stop

\* state.isHidden = true, written by a holder of the app state: no handler
\* of the file sets the flag, the blur handler clears it like the focus
\* handler does.
Hide ==
    /\ ~isHidden
    /\ isHidden' = TRUE
    /\ UNCHANGED <<stopped, skipTime, dt, restDt, time, numFrames, desiredDt,
                   started, loopPending, fixedAccumulatedDt, accumulatedDt,
                   nFixed, nUpdate>>
    /\ UNCHANGED NotFrame

\* The frame times the hidden-window runs draw from.
HiddenElapsed == {1, FixedDt + 1, StallElapsed}

NextHidden ==
    \/ Run
    \/ \E e \in HiddenElapsed : Frame(e)
    \/ WindowFocus
    \/ WindowBlur
    \/ Stop
    \/ Hide

(***************************************************************************)
(* Input reconciliation: raw device callbacks, processInput, resetInput.   *)
(***************************************************************************)

\* Raw keyboard events the windowing layer can deliver: e.key and e.code.
PhysKeys == {[key |-> "a", code |-> "KeyA"], [key |-> "B", code |-> "KeyB"]}
\* Key names after decoding.
Keys == {"a", "b"}
\* e.button values the windowing layer can deliver; 5 is no known button.
RawMouseButtons == {0, 5}
\* Events queued between two frames.
MaxQueue == 2

\* KEY_ALIAS.
KEY_ALIAS ==
    [k \in {"ArrowLeft", "ArrowRight", "ArrowUp", "ArrowDown", " "} |->
        CASE k = "ArrowLeft" -> "left"
          [] k = "ArrowRight" -> "right"
          [] k = "ArrowUp" -> "up"
          [] k = "ArrowDown" -> "down"
          [] k = " " -> "space"]

\* String.prototype.toLowerCase on the key names of the model.
toLowerCase(s) ==
    CASE s = "A" -> "a"
      [] s = "B" -> "b"
      [] OTHER -> s

\* KEY_ALIAS[e.key] || e.key.toLowerCase().
KeyOf(raw) == IF raw \in DOMAIN KEY_ALIAS THEN KEY_ALIAS[raw] ELSE toLowerCase(raw)

\* k.length === 1 for the decoded key names of the model.
IsSingleChar(k) == k \in {"a", "b"}

\* MOUSE_BUTTONS[e.button]; "undefined" past the end of the table.
MOUSE_BUTTONS == <<"left", "middle", "right", "back", "forward">>
MouseButtonOf(b) ==
    IF b + 1 \in DOMAIN MOUSE_BUTTONS THEN MOUSE_BUTTONS[b + 1] ELSE "undefined"

\* opt.buttons: "jump" is bound to the keys a and b, "fire" to the left mouse
\* button, to the south gamepad button and to the physical key B both by its
\* name and by its key code.
buttons ==
    [jump |-> [keyboard |-> <<"a", "b">>, keyboardCode |-> <<>>,
               mouse |-> <<>>, gamepad |-> <<>>],
     fire |-> [keyboard |-> <<"b">>, keyboardCode |-> <<"KeyB">>,
               mouse |-> <<"left">>, gamepad |-> <<"south">>]]
\* The order Object.keys(opt.buttons) yields.
ButtonNames == <<"jump", "fire">>
Buttons == {"jump", "fire"}

InSeq(x, s) == \E i \in DOMAIN s : s[i] = x

\* The names of ButtonNames, in order, whose binding list `field` holds x.
RECURSIVE BoundTo(_, _, _)
BoundTo(field, x, i) ==
    IF i > Len(ButtonNames) THEN <<>>
    ELSE (IF InSeq(x, buttons[ButtonNames[i]][field])
          THEN <<ButtonNames[i]>> ELSE <<>>) \o BoundTo(field, x, i + 1)

\* The four indices parseButtonBindings fills; a missing entry is <<>>.
buttonsByKey(k) == BoundTo("keyboard", k, 1)
buttonsByKeyCode(c) == BoundTo("keyboardCode", c, 1)
buttonsByMouse(m) == BoundTo("mouse", m, 1)
buttonsByGamepad(g) == BoundTo("gamepad", g, 1)

\* A notification: event name, its argument, the gamepad index (-1 when the
\* event carries none) and a stick value (<<>> when it carries none).
Note(ev, arg) == <<ev, arg, -1, <<>> >>
GpNote(ev, arg, gp) == <<ev, arg, gp, <<>> >>
StickNote(stick, value, gp) == <<"gamepadStick", stick, gp, value>>
Emit(w, n) == [w EXCEPT !.log = Append(@, n)]

\* names.forEach(btn => { buttonState.press(btn); trigger("buttonPress", btn) })
RECURSIVE PressButtons(_, _)
PressButtons(w, names) ==
    IF names = <<>> THEN w
    ELSE PressButtons(
            Emit([w EXCEPT !.buttonState = press(@, Head(names))],
                 Note("buttonPress", Head(names))),
            Tail(names))

\* names.forEach(btn => { buttonState.release(btn); trigger("buttonRelease", btn) })
RECURSIVE ReleaseButtons(_, _)
ReleaseButtons(w, names) ==
    IF names = <<>> THEN w
    ELSE ReleaseButtons(
            Emit([w EXCEPT !.buttonState = release(@, Head(names))],
                 Note("buttonRelease", Head(names))),
            Tail(names))

\* The reaction canvasEvents.keydown defers to the "input" event.
OnKeyDown(w, e) ==
    LET k == KeyOf(e.key)
        w1 == IF IsSingleChar(k)
              THEN [Emit(w, Note("charInput", k))
                        EXCEPT !.charInputted = Append(@, k)]
              ELSE IF k = "space"
              THEN [Emit(w, Note("charInput", " "))
                        EXCEPT !.charInputted = Append(@, " ")]
              ELSE w
    IN  IF e.repeat
        THEN Emit([w1 EXCEPT !.keyState = pressRepeat(@, k)],
                  Note("keyPressRepeat", k))
        ELSE LET w2 == [w1 EXCEPT !.lastInputDevice = "keyboard"]
                 w3 == PressButtons(w2, buttonsByKey(k))
                 w4 == PressButtons(w3, buttonsByKeyCode(e.code))
                 w5 == [w4 EXCEPT !.keyState = press(@, k)]
             IN  Emit(Emit(w5, Note("keyPressRepeat", k)), Note("keyPress", k))

\* The reaction canvasEvents.keyup defers to the "input" event.
OnKeyUp(w, e) ==
    LET k == KeyOf(e.key)
        w1 == ReleaseButtons(w, buttonsByKey(k))
        w2 == ReleaseButtons(w1, buttonsByKeyCode(e.code))
        w3 == [w2 EXCEPT !.keyState = release(@, k)]
    IN  Emit(w3, Note("keyRelease", k))

\* The reaction canvasEvents.mousedown defers to the "input" event.
OnMouseDown(w, e) ==
    LET m == MouseButtonOf(e.button)
    IN  IF m = "undefined" THEN w
        ELSE LET w1 == [w EXCEPT !.lastInputDevice = "mouse"]
                 w2 == PressButtons(w1, buttonsByMouse(m))
                 w3 == [w2 EXCEPT !.mouseState = press(@, m)]
             IN  Emit(w3, Note("mousePress", m))

\* The reaction canvasEvents.mouseup defers to the "input" event.
OnMouseUp(w, e) ==
    LET m == MouseButtonOf(e.button)
    IN  IF m = "undefined" THEN w
        ELSE LET w1 == ReleaseButtons(w, buttonsByMouse(m))
                 w2 == [w1 EXCEPT !.mouseState = release(@, m)]
             IN  Emit(w2, Note("mouseRelease", m))

\* The reaction canvasEvents.wheel defers to the "input" event.
OnWheel(w, e) == Emit(w, Note("scroll", "delta"))

\* The reaction canvasEvents.mousemove defers to the "input" event.
OnMouseMove(w, e) ==
    Emit([w EXCEPT !.isMouseMoved = TRUE,
                   !.mousePos = e.pos,
                   !.mouseDeltaPos = e.delta],
         Note("mouseMove", ""))

\* One deferred reaction.
React(w, e) ==
    CASE e.type = "keydown" -> OnKeyDown(w, e)
      [] e.type = "keyup" -> OnKeyUp(w, e)
      [] e.type = "mousedown" -> OnMouseDown(w, e)
      [] e.type = "mouseup" -> OnMouseUp(w, e)
      [] e.type = "wheel" -> OnWheel(w, e)
      [] e.type = "mousemove" -> OnMouseMove(w, e)

\* state.events.trigger("input"): the once-handlers run in the order they
\* were registered.
Ran(w, e) == [w EXCEPT !.ran = Append(@, e)]

RECURSIVE TriggerInput_lastFirst(_, _)
TriggerInput_lastFirst(w, q) ==
    IF q = <<>> THEN w
    ELSE TriggerInput_lastFirst(Ran(React(w, q[Len(q)]), q[Len(q)]),
                                SubSeq(q, 1, Len(q) - 1))

RECURSIVE TriggerInput(_, _)
TriggerInput(w, q) ==
    IF q = <<>> THEN w
    ELSE TriggerInput(Ran(React(w, Head(q)), Head(q)), Tail(q))

(***************************************************************************)
(* Gamepad polling                                                         *)
(***************************************************************************)

\* Object.keys(controller.buttons): the button names of an SDL controller.
ControllerButtonKeys == <<"a", "b", "x">>
\* Gamepad buttons and sticks the mapping tables of the model name.
GamepadButtons == {"south", "east"}
Sticks == {"left"}

\* GP_MAP["default"]: physical button index -> gamepad button, stick -> the
\* two axis indices it reads.  Index 2 is not mapped.
GP_MAP_default ==
    [buttons |-> [i \in {0, 1} |-> IF i = 0 THEN "south" ELSE "east"],
     sticks |-> [s \in Sticks |-> [x |-> 0, y |-> 1]]]

\* customMap[name] || GP_MAP[name] || GP_MAP["default"]: the model holds no
\* custom and no per-device table.
MapFor(name) == GP_MAP_default

\* A JavaScript string used as a condition: true unless it is empty.
Truthy(str) == str # ""

\* const isPressed = Object.keys(controller.buttons)[i]: the i-th button
\* NAME of the controller, used as the condition.
IsPressedRead(device, i) == Truthy(ControllerButtonKeys[i + 1])

\* sdlGamepads[index]: devices sit at 0-based positions of the device list.
HasDevice(devs, index) == index + 1 \in DOMAIN devs
DeviceAt(devs, index) == devs[index + 1]

\* A stick map: a stick that was never set maps to <<>>.
NoSticks == [s \in Sticks |-> <<>>]
NewGamepadState == [buttonState |-> NewButtonState, stickState |-> NoSticks]

RECURSIVE RemoveDisconnected_keepsState(_, _, _)
RemoveDisconnected_keepsState(w, devs, i) ==
    IF i < 1 THEN w
    ELSE LET index == w.gamepads[i]
         IN  IF HasDevice(devs, index)
             THEN RemoveDisconnected_keepsState(w, devs, i - 1)
             ELSE RemoveDisconnected_keepsState(
                    Emit([w EXCEPT
                            !.gamepads = SubSeq(@, 1, i - 1)
                                            \o SubSeq(@, i + 1, Len(@))],
                         GpNote("gamepadDisconnect", "", index)),
                    devs, i - 1)

\* The first loop of processGamepad, from the last tracked gamepad down.
RECURSIVE RemoveDisconnected(_, _, _)
RemoveDisconnected(w, devs, i) ==
    IF i < 1 THEN w
    ELSE LET index == w.gamepads[i]
         IN  IF HasDevice(devs, index) THEN RemoveDisconnected(w, devs, i - 1)
             ELSE RemoveDisconnected(
                    Emit([w EXCEPT
                            !.gamepads = SubSeq(@, 1, i - 1)
                                            \o SubSeq(@, i + 1, Len(@)),
                            !.gamepadStates =
                                [j \in DOMAIN @ \ {index} |-> @[j]]],
                         GpNote("gamepadDisconnect", "", index)),
                    devs, i - 1)

\* registerGamepad.
registerGamepad(w, index) ==
    [w EXCEPT !.gamepadStates =
                [j \in DOMAIN @ \cup {index} |->
                    IF j = index THEN NewGamepadState ELSE @[j]],
              !.gamepads = Append(@, index)]

\* The second loop of processGamepad.
RECURSIVE RegisterNew(_, _, _)
RegisterNew(w, devs, i) ==
    IF i >= Len(devs) THEN w
    ELSE IF i \in DOMAIN w.gamepadStates THEN RegisterNew(w, devs, i + 1)
    ELSE RegisterNew(Emit(registerGamepad(w, i),
                          GpNote("gamepadConnect", "", i)),
                     devs, i + 1)

PollButton_pressAgain(w, device, index, i) ==
    LET map == MapFor(device.name)
    IN  IF i \notin DOMAIN map.buttons THEN w
        ELSE LET gamepadBtn == map.buttons[i]
                 w1 == PressButtons(w, buttonsByGamepad(gamepadBtn))
                 w2 == [w1 EXCEPT
                          !.mergedGamepadState.buttonState =
                              press(@, gamepadBtn),
                          !.gamepadStates[index].buttonState =
                              press(@, gamepadBtn)]
             IN  Emit(w2, GpNote("gamepadButtonPress", gamepadBtn, index))

\* One round of the button loop of processGamepad for gamepad `index`.
PollButton(w, device, index, i) ==
    LET map == MapFor(device.name)
    IN  IF i \notin DOMAIN map.buttons THEN w
        ELSE
        LET gamepadBtn == map.buttons[i]
            isPressed == IsPressedRead(device, i)
            names == buttonsByGamepad(gamepadBtn)
            wasDown == gamepadBtn \in w.gamepadStates[index].buttonState.down
        IN  IF isPressed THEN
                IF wasDown
                THEN Emit(w, GpNote("gamepadButtonDown", gamepadBtn, index))
                ELSE LET w1 == [w EXCEPT !.lastInputDevice = "gamepad"]
                         w2 == PressButtons(w1, names)
                         w3 == [w2 EXCEPT
                                  !.mergedGamepadState.buttonState =
                                      press(@, gamepadBtn),
                                  !.gamepadStates[index].buttonState =
                                      press(@, gamepadBtn)]
                     IN  Emit(w3, GpNote("gamepadButtonPress", gamepadBtn, index))
            ELSE IF wasDown THEN
                LET w1 == ReleaseButtons(w, names)
                    w2 == [w1 EXCEPT
                             !.mergedGamepadState.buttonState =
                                 release(@, gamepadBtn),
                             !.gamepadStates[index].buttonState =
                                 release(@, gamepadBtn)]
                IN  Emit(w2, GpNote("gamepadButtonRelease", gamepadBtn, index))
            ELSE w

RECURSIVE PollButtons(_, _, _, _)
PollButtons(w, device, index, i) ==
    IF i >= Len(ControllerButtonKeys) THEN w
    ELSE PollButtons(PollButton(w, device, index, i), device, index, i + 1)

\* stickState.set(k, v).
MapSet(m, k, v) == [m EXCEPT ![k] = v]

\* axisValues[n] ?? 0.
AxisValue(device, n) ==
    IF n + 1 \in DOMAIN device.axes THEN device.axes[n + 1] ELSE 0

\* The stick loop of processGamepad for gamepad `index`; StickOrder is the
\* order of the keys of map.sticks.
StickOrder == <<"left">>
RECURSIVE PollSticks(_, _, _, _)
PollSticks(w, device, index, names) ==
    IF names = <<>> THEN w
    ELSE LET stickName == Head(names)
             stick == MapFor(device.name).sticks[stickName]
             value == <<AxisValue(device, stick.x), AxisValue(device, stick.y)>>
             w1 == [w EXCEPT
                      !.gamepadStates[index].stickState =
                          MapSet(@, stickName, value),
                      !.mergedGamepadState.stickState =
                          MapSet(@, stickName, value)]
         IN  PollSticks(Emit(w1, StickNote(stickName, value, index)),
                        device, index, Tail(names))

\* The third loop of processGamepad, over the tracked gamepads in order.
RECURSIVE PollGamepads(_, _, _)
PollGamepads(w, devs, i) ==
    IF i > Len(w.gamepads) THEN w
    ELSE LET index == w.gamepads[i]
         IN  IF index \notin DOMAIN w.gamepadStates \/ ~HasDevice(devs, index)
             THEN PollGamepads(w, devs, i + 1)
             ELSE LET device == DeviceAt(devs, index)
                      w1 == PollButtons(w, device, index, 0)
                      w2 == PollSticks(w1, device, index, StickOrder)
                  IN  PollGamepads(w2, devs, i + 1)

processGamepad(w, devs) ==
    PollGamepads(RegisterNew(RemoveDisconnected(w, devs, Len(w.gamepads)),
                             devs, 0),
                 devs, 1)

(***************************************************************************)
(* processInput and resetInput                                             *)
(***************************************************************************)

\* set.forEach(x => trigger(ev, x)): the members of `set` in the order of
\* `order` (the model keeps no insertion order).
RECURSIVE Replay_all(_, _, _, _)
Replay_all(w, ev, set, order) ==
    IF order = <<>> THEN w
    ELSE Replay_all(Emit(w, Note(ev, Head(order))), ev, set, Tail(order))

RECURSIVE Replay(_, _, _, _)
Replay(w, ev, set, order) ==
    IF order = <<>> THEN w
    ELSE Replay(IF Head(order) \in set THEN Emit(w, Note(ev, Head(order))) ELSE w,
                ev, set, Tail(order))

KeyOrder == <<"a", "b">>

processInput(w, q, devs) ==
    LET w1 == TriggerInput(w, q)
        w2 == Replay(w1, "keyDown", w1.keyState.down, KeyOrder)
        w3 == Replay(w2, "mouseDown", w2.mouseState.down, MOUSE_BUTTONS)
        w4 == Replay(w3, "buttonDown", w3.buttonState.down, ButtonNames)
    IN  processGamepad(w4, devs)

\* stickState.forEach((v, k) => stickState.set(k, new Vec2(0))).
ZeroSticks(m) == [k \in DOMAIN m |-> IF m[k] = <<>> THEN <<>> ELSE <<0, 0>>]

resetGamepadState_keepsSticks(g) ==
    [buttonState |-> update(g.buttonState), stickState |-> g.stickState]

resetGamepadState(g) ==
    [buttonState |-> update(g.buttonState), stickState |-> ZeroSticks(g.stickState)]

\* The part of the app state the input handlers work on, as one record.
World ==
    [keyState |-> keyState, mouseState |-> mouseState,
     buttonState |-> buttonState, mergedGamepadState |-> mergedGamepadState,
     gamepadStates |-> gamepadStates, gamepads |-> gamepads,
     lastInputDevice |-> lastInputDevice, charInputted |-> charInputted,
     isMouseMoved |-> isMouseMoved, mousePos |-> mousePos,
     mouseDeltaPos |-> mouseDeltaPos, log |-> log, ran |-> ran]

\* Before the first poll no device list has been read.
NeverPolled == [seen |-> FALSE, devs |-> <<>>, same |-> FALSE]

InitInputVars ==
    /\ keyState = NewButtonState
    /\ mouseState = NewButtonState
    /\ buttonState = NewButtonState
    /\ mergedGamepadState = NewGamepadState
    /\ gamepadStates = [j \in {} |-> NewGamepadState]
    /\ gamepads = <<>>
    /\ lastInputDevice = "null"
    /\ charInputted = <<>>
    /\ isMouseMoved = FALSE
    /\ mousePos = <<0, 0>>
    /\ mouseDeltaPos = <<0, 0>>
    /\ capsOn = FALSE
    /\ inputQueue = <<>>
    /\ phase = "collect"
    /\ log = <<>>
    /\ sdlDevices = <<>>
    /\ polled = NeverPolled
    /\ moves = <<>>
    /\ ran = <<>>
    /\ heldKeys = {}
    /\ heldMouse = {}

InputEvent(type, key, code, repeat, button) ==
    [type |-> type, key |-> key, code |-> code, repeat |-> repeat,
     button |-> button]

\* state.events.onOnce("input", reaction): raw callbacks only arrive between
\* two frames.
Defer(e) ==
    /\ phase = "collect"
    /\ Len(inputQueue) < MaxQueue
    /\ inputQueue' = Append(inputQueue, e)

\* canvasEvents.keydown.  The keyboard sends a first key-down for a key
\* that is up and repeats for a key that is held.
KeyDown(p, repeat, caps) ==
    /\ repeat <=> (p.code \in heldKeys)
    /\ heldKeys' = heldKeys \cup {p.code}
    /\ Defer(InputEvent("keydown", p.key, p.code, repeat, -1))
    /\ capsOn' = caps
    /\ UNCHANGED <<keyState, mouseState, buttonState, mergedGamepadState,
                   gamepadStates, gamepads, lastInputDevice, charInputted,
                   isMouseMoved, mousePos, mouseDeltaPos, phase, log,
                   sdlDevices, polled, moves, ran, heldMouse>>
    /\ UNCHANGED NotInput

\* canvasEvents.keyup.
KeyUp(p) ==
    /\ p.code \in heldKeys
    /\ heldKeys' = heldKeys \ {p.code}
    /\ Defer(InputEvent("keyup", p.key, p.code, FALSE, -1))
    /\ UNCHANGED <<keyState, mouseState, buttonState, mergedGamepadState,
                   gamepadStates, gamepads, lastInputDevice, charInputted,
                   isMouseMoved, mousePos, mouseDeltaPos, capsOn, phase, log,
                   sdlDevices, polled, moves, ran, heldMouse>>
    /\ UNCHANGED NotInput

\* Mutant of MouseDown: presses the button when the event arrives.
MouseDown_pressesAtOnce(b) ==
    /\ b \notin heldMouse
    /\ heldMouse' = heldMouse \cup {b}
    /\ Defer(InputEvent("mousedown", "", "", FALSE, b))
    /\ mouseState' = IF MouseButtonOf(b) = "undefined" THEN mouseState
                     ELSE press(mouseState, MouseButtonOf(b))
    /\ UNCHANGED <<keyState, buttonState, mergedGamepadState,
                   gamepadStates, gamepads, lastInputDevice, charInputted,
                   isMouseMoved, mousePos, mouseDeltaPos, capsOn, phase, log,
                   sdlDevices, polled, moves, ran, heldKeys>>
    /\ UNCHANGED NotInput

\* canvasEvents.mousedown.
MouseDown(b) ==
    /\ b \notin heldMouse
    /\ heldMouse' = heldMouse \cup {b}
    /\ Defer(InputEvent("mousedown", "", "", FALSE, b))
    /\ UNCHANGED <<keyState, mouseState, buttonState, mergedGamepadState,
                   gamepadStates, gamepads, lastInputDevice, charInputted,
                   isMouseMoved, mousePos, mouseDeltaPos, capsOn, phase, log,
                   sdlDevices, polled, moves, ran, heldKeys>>
    /\ UNCHANGED NotInput

\* canvasEvents.mouseup.
MouseUp(b) ==
    /\ b \in heldMouse
    /\ heldMouse' = heldMouse \ {b}
    /\ Defer(InputEvent("mouseup", "", "", FALSE, b))
    /\ UNCHANGED <<keyState, mouseState, buttonState, mergedGamepadState,
                   gamepadStates, gamepads, lastInputDevice, charInputted,
                   isMouseMoved, mousePos, mouseDeltaPos, capsOn, phase, log,
                   sdlDevices, polled, moves, ran, heldKeys>>
    /\ UNCHANGED NotInput

\* canvasEvents.wheel.
Wheel ==
    /\ Defer(InputEvent("wheel", "", "", FALSE, -1))
    /\ UNCHANGED <<keyState, mouseState, buttonState, mergedGamepadState,
                   gamepadStates, gamepads, lastInputDevice, charInputted,
                   isMouseMoved, mousePos, mouseDeltaPos, capsOn, phase, log,
                   sdlDevices, polled, moves, ran, heldKeys, heldMouse>>
    /\ UNCHANGED NotInput

\* isFullscreen(): its first statement throws, it never returns a value.
isFullscreen == "throws"

\* The move events the pointer can raise: a position and a movement.
MoveInputs == {[pos |-> <<1, 0>>, delta |-> <<1, 0>>],
               [pos |-> <<2, 1>>, delta |-> <<1, 1>>]}
\* Move events raised between two frames.
MaxMoves == 2

MoveEvent(pos, delta) ==
    [type |-> "mousemove", key |-> "", code |-> "", repeat |-> FALSE,
     button |-> -1, pos |-> pos, delta |-> delta]

\* canvasEvents.mousemove.  The handler computes the position, then tests
\* isFullscreen(); the exception that call throws ends the handler before it
\* writes lastInputDevice and before it registers its reaction.
MouseMove(pos, delta) ==
    /\ phase = "collect"
    /\ Len(moves) < MaxMoves
    /\ moves' = Append(moves, [pos |-> pos, delta |-> delta])
    /\ IF isFullscreen = "throws"
       THEN UNCHANGED <<lastInputDevice, inputQueue>>
       ELSE /\ lastInputDevice' = "mouse"
            /\ Defer(MoveEvent(pos, delta))
    /\ UNCHANGED <<keyState, mouseState, buttonState, mergedGamepadState,
                   gamepadStates, gamepads, charInputted, isMouseMoved,
                   mousePos, mouseDeltaPos, capsOn, phase, log, sdlDevices,
                   polled, ran, heldKeys, heldMouse>>
    /\ UNCHANGED NotInput

\* The controllers SDL can list: a name, the pressed flag of each button and
\* the axis values leftStickX, leftStickY.
ButtonReports ==
    {[k \in {"a", "b", "x"} |-> k \in on] : on \in {{}, {"a"}}}
Devices ==
    {[name |-> "pad", buttons |-> r,
      axes |-> IF r["a"] THEN <<1, 0>> ELSE <<0, 0>>] : r \in ButtonReports}
\* Controllers attached at once.
MaxPads == 2

\* A controller is plugged in: sdl.controller.devices grows at its end.
Attach(d) ==
    /\ phase = "collect"
    /\ Len(sdlDevices) < MaxPads
    /\ sdlDevices' = Append(sdlDevices, d)
    /\ UNCHANGED <<keyState, mouseState, buttonState, mergedGamepadState,
                   gamepadStates, gamepads, lastInputDevice, charInputted,
                   isMouseMoved, mousePos, mouseDeltaPos, capsOn, inputQueue,
                   phase, log, polled, moves, ran, heldKeys, heldMouse>>
    /\ UNCHANGED NotInput

\* The controller at position i is unplugged: the later ones move down.
Detach(i) ==
    /\ phase = "collect"
    /\ i \in DOMAIN sdlDevices
    /\ sdlDevices' = SubSeq(sdlDevices, 1, i - 1)
                        \o SubSeq(sdlDevices, i + 1, Len(sdlDevices))
    /\ UNCHANGED <<keyState, mouseState, buttonState, mergedGamepadState,
                   gamepadStates, gamepads, lastInputDevice, charInputted,
                   isMouseMoved, mousePos, mouseDeltaPos, capsOn, inputQueue,
                   phase, log, polled, moves, ran, heldKeys, heldMouse>>
    /\ UNCHANGED NotInput

\* The player presses or lets go of buttons and moves the stick of the
\* controller at position i.
PadInput(i, d) ==
    /\ phase = "collect"
    /\ i \in DOMAIN sdlDevices
    /\ d # sdlDevices[i]
    /\ sdlDevices' = [sdlDevices EXCEPT ![i] = d]
    /\ UNCHANGED <<keyState, mouseState, buttonState, mergedGamepadState,
                   gamepadStates, gamepads, lastInputDevice, charInputted,
                   isMouseMoved, mousePos, mouseDeltaPos, capsOn, inputQueue,
                   phase, log, polled, moves, ran, heldKeys, heldMouse>>
    /\ UNCHANGED NotInput

\* processInput(), called by the update callback of a frame.
ProcessInput ==
    /\ phase = "collect"
    /\ LET w == processInput(World, inputQueue, sdlDevices)
       IN  /\ keyState' = w.keyState
           /\ mouseState' = w.mouseState
           /\ buttonState' = w.buttonState
           /\ mergedGamepadState' = w.mergedGamepadState
           /\ gamepadStates' = w.gamepadStates
           /\ gamepads' = w.gamepads
           /\ lastInputDevice' = w.lastInputDevice
           /\ charInputted' = w.charInputted
           /\ isMouseMoved' = w.isMouseMoved
           /\ mousePos' = w.mousePos
           /\ mouseDeltaPos' = w.mouseDeltaPos
           /\ log' = w.log
           /\ ran' = w.ran
    /\ inputQueue' = <<>>
    /\ phase' = "update"
    /\ polled' = [seen |-> TRUE, devs |-> sdlDevices,
                  same |-> polled.seen /\ polled.devs = sdlDevices]
    /\ moves' = <<>>
    /\ UNCHANGED <<capsOn, sdlDevices, heldKeys, heldMouse>>
    /\ UNCHANGED NotInput

\* resetInput(), called by the update callback after the update logic.
ResetInput ==
    /\ phase = "update"
    /\ keyState' = update(keyState)
    /\ mouseState' = update(mouseState)
    /\ buttonState' = update(buttonState)
    /\ mergedGamepadState' = resetGamepadState(mergedGamepadState)
    /\ charInputted' = <<>>
    /\ isMouseMoved' = FALSE
    /\ mouseDeltaPos' = <<0, 0>>
    /\ gamepadStates' =
            [j \in DOMAIN gamepadStates |-> resetGamepadState(gamepadStates[j])]
    /\ phase' = "collect"
    /\ log' = <<>>
    /\ ran' = <<>>
    /\ UNCHANGED <<gamepads, lastInputDevice, mousePos, capsOn, inputQueue,
                   sdlDevices, polled, moves, heldKeys, heldMouse>>
    /\ UNCHANGED NotInput

NextInput ==
    \/ \E p \in PhysKeys, r \in BOOLEAN, c \in BOOLEAN : KeyDown(p, r, c)
    \/ \E p \in PhysKeys : KeyUp(p)
    \/ \E b \in RawMouseButtons : MouseDown(b)
    \/ \E b \in RawMouseButtons : MouseUp(b)
    \/ Wheel
    \/ ProcessInput
    \/ ResetInput

\* The keyboard (one key), the mouse buttons, the wheel and the pointer.
KeyA == [key |-> "a", code |-> "KeyA"]
NextPointer ==
    \/ \E c \in BOOLEAN : KeyDown(KeyA, FALSE, c)
    \/ KeyUp(KeyA)
    \/ MouseDown(0)
    \/ MouseUp(0)
    \/ Wheel
    \/ \E m \in MoveInputs : MouseMove(m.pos, m.delta)
    \/ ProcessInput
    \/ ResetInput

\* The keyboard (one key) and the controllers.
NextDevices ==
    \/ KeyDown(KeyA, FALSE, FALSE)
    \/ KeyUp(KeyA)
    \/ \E d \in Devices : Attach(d)
    \/ \E i \in 1..MaxPads : Detach(i)
    \/ \E i \in 1..MaxPads, d \in Devices : PadInput(i, d)
    \/ ProcessInput
    \/ ResetInput

(***************************************************************************)
(* Audio playback handles.                                                 *)
(*                                                                         *)
(* Units.  Date.now() counts clock ticks, TicksPerSec to the second.  A    *)
(* decoded buffer holds SampleRate frames per second.  The playback cursor *)
(* is fractional in the source; the model keeps it in sub-frames,          *)
(* SubFrames to the frame, so playbackPosition 1.0 is SubFrames.  Volume,  *)
(* pan and master volume are kept in units of 1 / GainOne, and an output   *)
(* sample in units of 1 / (2 * GainOne^3), so that the gain products and   *)
(* the mono mix-down (l + r) / 2 are whole numbers.                        *)
(***************************************************************************)

TicksPerSec == 2
SampleRate == 2
SubFrames == 2
GainOne == 2
\* Output frames per chunk: 2048 for a sound and 4096 for music in the
\* source, scaled down keeping music chunks the longer.
SndChunkFrames == 2
MusChunkFrames == 3
\* Date.now() stops advancing at MaxClock.
MaxClock == 1
\* Chunks the device queue holds before the device has to play one.
MaxDeviceQueue == 1
\* Render timers of one handle that may be pending at once.
MaxTimers == 2

\* The handles a behaviour may create.
Handles == {1}
\* Lengths (in frames) of the decoded buffers.
FrameCounts == {3}
\* Channel counts of the decoded buffers.
ChannelCounts == {1, 2}
\* Arguments of seek() and play(), and values of opt.seek, in seconds.
SeekTimes == {0, 1, 2}

\* The decoded sample at interleaved index k of a buffer (never zero).
Sample(k) == k + 1

Max(a, b) == IF a > b THEN a ELSE b

\* A slot for a handle that play() has not created yet.
NoHandle ==
    [kind |-> "none", paused |-> FALSE, loop |-> FALSE, volume |-> GainOne,
     pan |-> 0, speed |-> SubFrames, detune |-> 0, seekPos |-> 0,
     loaded |-> "no",
     frames |-> 0, channels |-> 1, pos |-> 0, currentTime |-> 0,
     startTime |-> 0, pauseTime |-> 0, isPlaying |-> FALSE,
     playbackId |-> "null", idLive |-> FALSE, timers |-> 0,
     ends |-> 0, enq |-> 0, chunk |-> <<>>, src |-> <<>>,
     from |-> 0, rendered |-> {}, resumeFrom |-> -1, halted |-> FALSE,
     hung |-> FALSE]

\* The audio world an operation works on: every handle, the device queue
\* (the owner of each queued chunk) and the clock.
AudioWorld == [handles |-> handles, queue |-> queue, now |-> now]

H(a, i) == a.handles[i]
SetH(a, i, h) == [a EXCEPT !.handles[i] = h]

Range(f) == {f[j] : j \in DOMAIN f}
Zeros(n) == [j \in 1 .. n |-> 0]
Silence(n) == [j \in 1 .. n |-> -1]

\* Math.floor(playbackPosition) for a cursor that is not negative.
Floor(pos) == pos \div SubFrames

\* audioBuffer[k] || 0: a read past the end yields undefined, hence 0.
BufferAt(h, k) == IF k >= 0 /\ k < h.frames * h.channels THEN Sample(k) ELSE 0

\* One rendered output frame of a sound: pan attenuates the opposite
\* channel of a stereo device, a mono device gets the mean of both channels.
SndOutFrame_panSwapped(h, sourceIndex) ==
    LET leftSample == BufferAt(h, sourceIndex)
        rightSample == IF h.channels > 1 THEN BufferAt(h, sourceIndex + 1)
                       ELSE leftSample
        leftGain == h.volume * (GainOne + Min(0, h.pan))
        rightGain == h.volume * (GainOne - Max(0, h.pan))
    IN  IF deviceChannels = 2
        THEN <<2 * leftSample * leftGain * masterVolume,
               2 * rightSample * rightGain * masterVolume>>
        ELSE <<(leftSample + rightSample) * h.volume * GainOne * masterVolume>>

SndOutFrame(h, sourceIndex) ==
    LET leftSample == BufferAt(h, sourceIndex)
        rightSample == IF h.channels > 1 THEN BufferAt(h, sourceIndex + 1)
                       ELSE leftSample
        leftGain == h.volume * (GainOne - Max(0, h.pan))
        rightGain == h.volume * (GainOne + Min(0, h.pan))
    IN  IF deviceChannels = 2
        THEN <<2 * leftSample * leftGain * masterVolume,
               2 * rightSample * rightGain * masterVolume>>
        ELSE <<(leftSample + rightSample) * h.volume * GainOne * masterVolume>>

\* Mutant of SndFill: takes the last source frame for the end of the buffer.
RECURSIVE SndFill_endsEarly(_, _, _, _)
SndFill_endsEarly(h, chunk, src, i) ==
    IF i >= SndChunkFrames THEN [h |-> h, chunk |-> chunk, src |-> src]
    ELSE
    LET p == Floor(h.pos)
        sourceIndex == p * h.channels
    IN  IF sourceIndex >= (h.frames - 1) * h.channels THEN
            IF h.loop
            THEN SndFill_endsEarly([h EXCEPT !.pos = 0],
                         chunk \o Zeros(deviceChannels), src \o <<-1>>, i + 1)
            ELSE [h |-> [h EXCEPT !.isPlaying = FALSE, !.ends = @ + 1],
                  chunk |-> chunk \o Zeros((SndChunkFrames - i) * deviceChannels),
                  src |-> src \o Silence(SndChunkFrames - i)]
        ELSE SndFill_endsEarly([h EXCEPT !.pos = @ + h.speed],
                     chunk \o SndOutFrame(h, sourceIndex), src \o <<p>>, i + 1)

\* Mutant of SndFill: the end of the buffer ends playback, looping or not.
RECURSIVE SndFill_loopEnds(_, _, _, _)
SndFill_loopEnds(h, chunk, src, i) ==
    IF i >= SndChunkFrames THEN [h |-> h, chunk |-> chunk, src |-> src]
    ELSE
    LET p == Floor(h.pos)
        sourceIndex == p * h.channels
    IN  IF sourceIndex >= h.frames * h.channels THEN
            [h |-> [h EXCEPT !.isPlaying = FALSE, !.ends = @ + 1],
             chunk |-> chunk \o Zeros((SndChunkFrames - i) * deviceChannels),
             src |-> src \o Silence(SndChunkFrames - i)]
        ELSE SndFill_loopEnds([h EXCEPT !.pos = @ + h.speed],
                     chunk \o SndOutFrame(h, sourceIndex), src \o <<p>>, i + 1)

\* The for loop of scheduleNextChunk, from output frame i on.  chunk holds the
\* samples written so far and src, per output frame, the source frame it was
\* rendered from (-1 for a frame left silent).
RECURSIVE SndFill(_, _, _, _)
SndFill(h, chunk, src, i) ==
    IF i >= SndChunkFrames THEN [h |-> h, chunk |-> chunk, src |-> src]
    ELSE
    LET p == Floor(h.pos)
        sourceIndex == p * h.channels
    IN  IF sourceIndex >= h.frames * h.channels THEN
            IF h.loop
            THEN SndFill([h EXCEPT !.pos = 0],
                         chunk \o Zeros(deviceChannels), src \o <<-1>>, i + 1)
            ELSE [h |-> [h EXCEPT !.isPlaying = FALSE, !.ends = @ + 1],
                  chunk |-> chunk \o Zeros((SndChunkFrames - i) * deviceChannels),
                  src |-> src \o Silence(SndChunkFrames - i)]
        ELSE SndFill([h EXCEPT !.pos = @ + h.speed],
                     chunk \o SndOutFrame(h, sourceIndex), src \o <<p>>, i + 1)

\* device.enqueue(buffer) by handle i; enq counts the handle's chunks modulo 3.
Enqueue(a, i, r) ==
    [a EXCEPT !.queue = Append(@, i),
              !.handles[i] = [r.h EXCEPT !.enq = (@ + 1) % 3,
                                         !.chunk = r.chunk, !.src = r.src,
                                         !.rendered = @ \cup (Range(r.src) \ {-1})]]

\* playbackId = setTimeout(scheduleNextChunk, ...).
SetTimer(h) ==
    [h EXCEPT !.playbackId = "set", !.idLive = TRUE, !.timers = @ + 1]

\* if (playbackId) { clearTimeout(playbackId); playbackId = null; }
ClearTimer(h) ==
    IF h.playbackId = "null" THEN h
    ELSE [h EXCEPT !.playbackId = "null", !.idLive = FALSE,
                   !.timers = IF h.idLive THEN @ - 1 ELSE @]

\* play.ts scheduleNextChunk.
SndScheduleNextChunk(a, i) ==
    LET h == H(a, i)
    IN  IF h.loaded # "yes" \/ ~h.isPlaying THEN a
        ELSE LET r == SndFill(h, <<>>, <<>>, 0)
                 a1 == Enqueue(a, i, r)
             IN  SetH(a1, i, SetTimer(H(a1, i)))

\* play.ts startPlayback.  A new playback run starts: ends counts the "end"
\* notifications of the current run.
SndStartPlayback(a, i) ==
    LET h == H(a, i)
    IN  IF h.loaded # "yes" \/ h.isPlaying THEN a
        ELSE SndScheduleNextChunk(
                SetH(a, i, [h EXCEPT !.isPlaying = TRUE, !.startTime = a.now,
                                     !.pos = h.seekPos * SampleRate * SubFrames,
                                     !.ends = 0, !.rendered = {},
                                     !.from = h.seekPos * SampleRate]), i)

\* play.ts stopPlayback.
SndStopPlayback(a, i) ==
    [SetH(a, i, [ClearTimer(H(a, i)) EXCEPT !.isPlaying = FALSE])
        EXCEPT !.queue = <<>>]

\* play.ts start(data): the decoded buffer arrives.
SndStart(a, i, frameCount, channelCount) ==
    LET h == [H(a, i) EXCEPT !.loaded = "yes", !.frames = frameCount,
                             !.channels = channelCount]
        a1 == SetH(a, i, h)
    IN  IF ~h.paused THEN SndStartPlayback(a1, i) ELSE a1

\* play.ts set paused.
SndSetPaused(a, i, p) ==
    LET h == H(a, i)
    IN  IF h.paused = p THEN a
        ELSE IF p
        THEN LET a1 == SndStopPlayback(SetH(a, i, [h EXCEPT !.paused = TRUE]), i)
             IN  SetH(a1, i, [H(a1, i) EXCEPT !.pauseTime = a.now])
        ELSE LET elapsed == h.pauseTime - h.startTime
             IN  SndStartPlayback(
                    SetH(a, i, [h EXCEPT !.paused = FALSE,
                                         !.startTime = a.now - elapsed]), i)

\* play.ts seek.  time > duration is time * sampleRate > frames.
SndSeek(a, i, t) ==
    LET h == H(a, i)
    IN  IF h.loaded # "yes" THEN a
        ELSE IF t * SampleRate > h.frames THEN a
        ELSE LET a1 == SetH(a, i, [h EXCEPT !.seekPos = t,
                                            !.pos = t * SampleRate * SubFrames])
             IN  IF ~h.paused
                 THEN LET a2 == SndStopPlayback(a1, i)
                          a3 == SetH(a2, i, [H(a2, i) EXCEPT !.startTime = a.now])
                      IN  SndStartPlayback(a3, i)
                 ELSE a1

\* play.ts play(time).
SndPlay(a, i, t) == SndSetPaused(SndSeek(a, i, t), i, FALSE)

\* play.ts stop().
SndStop(a, i) == SndSeek(SndSetPaused(a, i, TRUE), i, 0)

\* play.ts getTime, in units of 1 / (TicksPerSec * SampleRate) s.  With loop
\* on and an empty buffer t % d is NaN, which the model reports as -1.
SndGetTime(a, i) ==
    LET h == H(a, i)
        t == (IF h.paused THEN h.pauseTime - h.startTime
              ELSE a.now - h.startTime) * SampleRate
        d == h.frames * TicksPerSec
    IN  IF h.loaded # "yes" THEN 0
        ELSE IF h.loop THEN (IF d = 0 THEN -1 ELSE t % d)
        ELSE Min(t, d)

\* One rendered output frame of music: volume only, no pan.
MusOutFrame(h, sourceIndex) ==
    LET leftSample == BufferAt(h, sourceIndex)
        rightSample == IF h.channels > 1 THEN BufferAt(h, sourceIndex + 1)
                       ELSE leftSample
        leftVol == leftSample * h.volume
        rightVol == rightSample * h.volume
    IN  IF deviceChannels = 2
        THEN <<2 * leftVol * GainOne * masterVolume,
               2 * rightVol * GainOne * masterVolume>>
        ELSE <<(leftVol + rightVol) * GainOne * masterVolume>>

\* The while loop of the music scheduleNextChunk, with written output frames
\* so far.  A wrap of a looping handle writes nothing and goes round again;
\* with an empty buffer the round after the wrap is the same round, and the
\* loop never ends (hung).
RECURSIVE MusFill(_, _, _, _)
MusFill(h, chunk, src, written) ==
    IF written >= MusChunkFrames THEN [h |-> h, chunk |-> chunk, src |-> src]
    ELSE
    LET sourcePos == Floor(h.pos)
        sourceIndex == sourcePos * h.channels
    IN  IF sourceIndex >= h.frames * h.channels THEN
            IF h.loop
            THEN IF 0 >= h.frames * h.channels
                 THEN [h |-> [h EXCEPT !.pos = 0, !.currentTime = 0,
                                       !.hung = TRUE],
                       chunk |-> chunk, src |-> src]
                 ELSE MusFill([h EXCEPT !.pos = 0, !.currentTime = 0],
                              chunk, src, written)
            ELSE [h |-> [h EXCEPT !.isPlaying = FALSE, !.ends = @ + 1],
                  chunk |-> chunk \o Zeros((MusChunkFrames - written) * deviceChannels),
                  src |-> src \o Silence(MusChunkFrames - written)]
        ELSE MusFill([h EXCEPT !.pos = @ + h.speed,
                               !.currentTime = h.pos + h.speed],
                     chunk \o MusOutFrame(h, sourceIndex), src \o <<sourcePos>>,
                     written + 1)

\* playMusic scheduleNextChunk.
MusScheduleNextChunk(a, i) ==
    LET h == H(a, i)
    IN  IF h.loaded # "yes" \/ ~h.isPlaying \/ h.paused THEN a
        ELSE LET r == MusFill(h, <<>>, <<>>, 0)
                 a1 == Enqueue(a, i, r)
             IN  IF r.h.hung THEN SetH(a, i, r.h)
                 ELSE SetH(a1, i, SetTimer(H(a1, i)))

MusPlayInner_unloaded(a, i) ==
    LET h == H(a, i)
    IN  IF ~h.isPlaying
        THEN MusScheduleNextChunk(
                SetH(a, i, [h EXCEPT !.isPlaying = TRUE, !.ends = 0,
                                     !.rendered = {}, !.from = Floor(h.pos)]), i)
        ELSE a

\* playMusic play (the inner function).  A new playback run starts where the
\* cursor stands.
MusPlayInner(a, i) ==
    LET h == H(a, i)
    IN  IF h.loaded # "yes" THEN a
        ELSE IF ~h.isPlaying
        THEN MusScheduleNextChunk(
                SetH(a, i, [h EXCEPT !.isPlaying = TRUE, !.ends = 0,
                                     !.rendered = {}, !.from = Floor(h.pos)]), i)
        ELSE a

\* playMusic stopPlayback.
MusStopPlayback(a, i) ==
    [SetH(a, i, [ClearTimer(H(a, i)) EXCEPT !.isPlaying = FALSE])
        EXCEPT !.queue = <<>>]

\* Mutant of MusLoaded: starts playing whatever the paused flag says.
MusLoaded_ignoresPaused(a, i, frameCount, channelCount) ==
    LET h == [H(a, i) EXCEPT !.loaded = "yes", !.frames = frameCount,
                             !.channels = channelCount]
    IN  MusPlayInner(SetH(a, i, h), i)

\* playMusic loadAudio, after decode resolved.
MusLoaded(a, i, frameCount, channelCount) ==
    LET h == [H(a, i) EXCEPT !.loaded = "yes", !.frames = frameCount,
                             !.channels = channelCount]
        a1 == SetH(a, i, h)
    IN  IF ~h.paused /\ ~h.isPlaying THEN MusPlayInner(a1, i) ELSE a1

\* playMusic play() of the returned handle.
MusPlay(a, i) == MusPlayInner(SetH(a, i, [H(a, i) EXCEPT !.paused = FALSE]), i)

\* clamp(time, 0, duration), in sub-frames.
ClampTime(h, t) == Max(0, Min(t * SampleRate * SubFrames, h.frames * SubFrames))

\* playMusic seek.  Inside a playback run the run goes on from the new cursor.
MusSeek(a, i, t) ==
    LET h == H(a, i)
    IN  IF h.loaded # "yes" THEN a
        ELSE SetH(a, i, [h EXCEPT !.currentTime = ClampTime(h, t),
                                  !.pos = ClampTime(h, t),
                                  !.from = IF h.isPlaying
                                           THEN Floor(ClampTime(h, t)) ELSE @,
                                  !.rendered = IF h.isPlaying THEN {} ELSE @])

\* playMusic stop().
MusStop(a, i) ==
    LET a1 == MusStopPlayback(a, i)
    IN  MusSeek(SetH(a1, i, [H(a1, i) EXCEPT !.paused = TRUE]), i, 0)

\* playMusic set paused.
MusSetPaused(a, i, p) ==
    LET h == H(a, i)
        a1 == SetH(a, i, [h EXCEPT !.paused = p])
    IN  IF p = h.paused THEN a
        ELSE IF p THEN MusStopPlayback(a1, i)
        ELSE MusPlayInner(a1, i)

\* playMusic time(), in units of 1 / (SampleRate * SubFrames) s.
MusTime(a, i) == H(a, i).currentTime

\* The latest call made on a playback handle, "none" once anything else ran.
NoCall == [op |-> "none", h |-> 0, arg |-> 0]
Called(op, i, arg) == [op |-> op, h |-> i, arg |-> arg]
Bit(b) == IF b THEN 1 ELSE 0

\* History kept per handle: resumeFrom is the cursor at which paused = true
\* stopped a playing handle, or -1 once the handle was sought, stopped or
\* restarted since; halted holds from a stop() to the next play() or
\* paused = false.
Resume(a, i, v) == SetH(a, i, [H(a, i) EXCEPT !.resumeFrom = v])
Halt(a, i, v) == SetH(a, i, [H(a, i) EXCEPT !.halted = v])

InitAudioVars ==
    /\ handles = [i \in Handles |-> NoHandle]
    /\ queue = <<>>
    /\ now = 0
    /\ deviceChannels \in {1, 2}
    /\ masterVolume = GainOne
    /\ lastCall = NoCall

\* The outcome a of a call or callback becomes the next state.  The device
\* plays a chunk before a further one is queued beyond MaxDeviceQueue.
Outcome(a, call) ==
    /\ \A i \in DOMAIN handles : ~handles[i].hung
    /\ Len(a.queue) <= MaxDeviceQueue
    /\ \A i \in DOMAIN a.handles : a.handles[i].timers <= MaxTimers
    /\ handles' = a.handles
    /\ queue' = a.queue
    /\ lastCall' = call
    /\ UNCHANGED <<now, deviceChannels, masterVolume>>
    /\ UNCHANGED NotAudio

IsSound(i) == handles[i].kind = "sound"
IsMusic(i) == handles[i].kind = "music"

\* play(src, opt) of a sound.  sync: src is decoded data, not a pending asset.
PlaySound(i, p, l, s, sync, frameCount, channelCount) ==
    /\ handles[i].kind = "none"
    /\ LET a == SetH(AudioWorld, i,
                    [NoHandle EXCEPT !.kind = "sound", !.paused = p,
                                     !.loop = l, !.seekPos = s])
       IN  Outcome(IF sync THEN SndStart(a, i, frameCount, channelCount) ELSE a,
                   Called("create", i, 0))

\* The asset of a sound finishes loading: onLoad(start).
SoundLoaded(i, frameCount, channelCount) ==
    /\ IsSound(i)
    /\ handles[i].loaded = "no"
    /\ Outcome(SndStart(AudioWorld, i, frameCount, channelCount), NoCall)

\* playMusic(url, opt): decoding starts, play() finds nothing loaded yet.
PlayMusic(i, p, l) ==
    /\ handles[i].kind = "none"
    /\ LET a == SetH(AudioWorld, i,
                    [NoHandle EXCEPT !.kind = "music", !.paused = p,
                                     !.loop = l, !.channels = 2])
       IN  Outcome(IF ~p THEN MusPlayInner(a, i) ELSE a, Called("create", i, 0))

\* decode() resolves.
MusicLoaded(i, frameCount, channelCount) ==
    /\ IsMusic(i)
    /\ handles[i].loaded = "no"
    /\ Outcome(MusLoaded(AudioWorld, i, frameCount, channelCount), NoCall)

\* readFileSync or decode() throws: caught and logged.
MusicLoadFailed(i) ==
    /\ IsMusic(i)
    /\ handles[i].loaded = "no"
    /\ Outcome(SetH(AudioWorld, i, [handles[i] EXCEPT !.loaded = "failed"]),
               NoCall)

\* The timer playbackId names fires.
TimerFires(i) ==
    /\ handles[i].idLive
    /\ LET a == SetH(AudioWorld, i,
                    [handles[i] EXCEPT !.idLive = FALSE, !.timers = @ - 1])
       IN  Outcome(IF IsSound(i) THEN SndScheduleNextChunk(a, i)
                   ELSE MusScheduleNextChunk(a, i), NoCall)

\* A pending timer that playbackId no longer names fires.
StaleTimerFires(i) ==
    /\ handles[i].timers > Bit(handles[i].idLive)
    /\ LET a == SetH(AudioWorld, i, [handles[i] EXCEPT !.timers = @ - 1])
       IN  Outcome(IF IsSound(i) THEN SndScheduleNextChunk(a, i)
                   ELSE MusScheduleNextChunk(a, i), NoCall)

SoundSetPaused(i, p) ==
    /\ IsSound(i)
    /\ LET h == handles[i]
           v == IF p THEN (IF h.isPlaying /\ ~h.paused THEN h.pos ELSE -1)
                ELSE (IF h.paused THEN h.resumeFrom ELSE -1)
           a == Resume(SndSetPaused(AudioWorld, i, p), i, v)
       IN  Outcome(IF p THEN a ELSE Halt(a, i, FALSE),
                   Called("paused", i, Bit(p)))

SoundSeek(i, t) ==
    /\ IsSound(i)
    /\ Outcome(Resume(SndSeek(AudioWorld, i, t), i, -1), Called("seek", i, t))

SoundPlay(i, t) ==
    /\ IsSound(i)
    /\ Outcome(Halt(Resume(SndPlay(AudioWorld, i, t), i, -1), i, FALSE),
               Called("play", i, t))

SoundStop(i) ==
    /\ IsSound(i)
    /\ Outcome(Halt(Resume(SndStop(AudioWorld, i), i, -1), i, TRUE),
               Called("stop", i, 0))

SoundSetLoop(i, l) ==
    /\ IsSound(i)
    /\ Outcome(SetH(AudioWorld, i, [handles[i] EXCEPT !.loop = l]),
               Called("loop", i, Bit(l)))

MusicSetPaused(i, p) ==
    /\ IsMusic(i)
    /\ LET h == handles[i]
           v == IF p THEN (IF h.isPlaying /\ ~h.paused THEN h.pos ELSE -1)
                ELSE (IF h.paused THEN h.resumeFrom ELSE -1)
           a == Resume(MusSetPaused(AudioWorld, i, p), i, v)
       IN  Outcome(IF p THEN a ELSE Halt(a, i, FALSE),
                   Called("paused", i, Bit(p)))

MusicSeek(i, t) ==
    /\ IsMusic(i)
    /\ Outcome(Resume(MusSeek(AudioWorld, i, t), i, -1), Called("seek", i, t))

MusicPlay(i) ==
    /\ IsMusic(i)
    /\ Outcome(Halt(Resume(MusPlay(AudioWorld, i), i, -1), i, FALSE),
               Called("play", i, 0))

MusicStop(i) ==
    /\ IsMusic(i)
    /\ Outcome(Halt(Resume(MusStop(AudioWorld, i), i, -1), i, TRUE),
               Called("stop", i, 0))

MusicSetLoop(i, l) ==
    /\ IsMusic(i)
    /\ Outcome(SetH(AudioWorld, i, [handles[i] EXCEPT !.loop = l]),
               Called("loop", i, Bit(l)))

\* Date.now() advances.
Tick ==
    /\ now < MaxClock
    /\ now' = now + 1
    /\ lastCall' = NoCall
    /\ UNCHANGED <<handles, queue, deviceChannels, masterVolume>>
    /\ UNCHANGED NotAudio

\* The device plays the chunk at the head of its queue.
DevicePlays ==
    /\ queue # <<>>
    /\ queue' = Tail(queue)
    /\ lastCall' = NoCall
    /\ UNCHANGED <<handles, now, deviceChannels, masterVolume>>
    /\ UNCHANGED NotAudio

NextAudio ==
    \/ \E i \in Handles, p \in BOOLEAN, l \in BOOLEAN, s \in SeekTimes,
          sync \in BOOLEAN, n \in FrameCounts, c \in ChannelCounts :
            PlaySound(i, p, l, s, sync, n, c)
    \/ \E i \in Handles, n \in FrameCounts, c \in ChannelCounts :
            SoundLoaded(i, n, c)
    \/ \E i \in Handles, p \in BOOLEAN, l \in BOOLEAN : PlayMusic(i, p, l)
    \/ \E i \in Handles, n \in FrameCounts, c \in ChannelCounts :
            MusicLoaded(i, n, c)
    \/ \E i \in Handles : MusicLoadFailed(i)
    \/ \E i \in Handles : TimerFires(i)
    \/ \E i \in Handles : StaleTimerFires(i)
    \/ \E i \in Handles, p \in BOOLEAN : SoundSetPaused(i, p)
    \/ \E i \in Handles, t \in SeekTimes : SoundSeek(i, t)
    \/ \E i \in Handles, t \in SeekTimes : SoundPlay(i, t)
    \/ \E i \in Handles : SoundStop(i)
    \/ \E i \in Handles, l \in BOOLEAN : SoundSetLoop(i, l)
    \/ \E i \in Handles, p \in BOOLEAN : MusicSetPaused(i, p)
    \/ \E i \in Handles, t \in SeekTimes : MusicSeek(i, t)
    \/ \E i \in Handles : MusicPlay(i)
    \/ \E i \in Handles : MusicStop(i)
    \/ \E i \in Handles, l \in BOOLEAN : MusicSetLoop(i, l)
    \/ Tick
    \/ DevicePlays

\* Two handles on the one device of initAudio.
Pair == {1, 2}

InitPairVars ==
    /\ handles = [i \in Pair |-> NoHandle]
    /\ queue = <<>>
    /\ now = 0
    /\ deviceChannels = 2
    /\ masterVolume = GainOne
    /\ lastCall = NoCall

\* The calls and callbacks of two handles: handle 1 a non-looping mono sound
\* given as decoded data, handle 2 a non-looping stereo music track.
NextPair ==
    \/ \E p \in BOOLEAN, n \in FrameCounts :
            PlaySound(1, p, FALSE, 0, TRUE, n, 1)
    \/ \E p \in BOOLEAN : PlayMusic(2, p, FALSE)
    \/ \E n \in FrameCounts : MusicLoaded(2, n, 2)
    \/ \E i \in Pair : TimerFires(i)
    \/ \E i \in Pair : StaleTimerFires(i)
    \/ \E p \in BOOLEAN : SoundSetPaused(1, p)
    \/ SoundSeek(1, 0)
    \/ SoundPlay(1, 0)
    \/ SoundStop(1)
    \/ \E p \in BOOLEAN : MusicSetPaused(2, p)
    \/ MusicSeek(2, 0)
    \/ MusicPlay(2)
    \/ MusicStop(2)
    \/ DevicePlays

(***************************************************************************)
(* Volume and pan                                                          *)
(***************************************************************************)

\* Values a program passes as opt.volume or assigns to volume, and as
\* opt.pan or assigns to pan, in units of 1 / GainOne.
VolumeInputs == {-1, 1, GainOne, GainOne + 1}
PanInputs == {-GainOne - 1, -1, 0, GainOne, GainOne + 1}

\* clamp(val, lo, hi).
clamp(val, lo, hi) == Max(lo, Min(val, hi))

\* play(src, opt) for a sound whose data is decoded: volume = opt.volume ?? 1
\* and pan = opt.pan ?? 0 are taken as given.
PlaySoundOpt(i, l, channelCount, v, pn) ==
    /\ handles[i].kind = "none"
    /\ \E frameCount \in FrameCounts :
        LET a == SetH(AudioWorld, i,
                     [NoHandle EXCEPT !.kind = "sound", !.loop = l,
                                      !.volume = v, !.pan = pn])
        IN  Outcome(SndStart(a, i, frameCount, channelCount),
                    Called("create", i, 0))

\* playMusic(url, opt): volume = opt.volume ?? 1 is taken as given, opt.pan
\* is not read.
PlayMusicOpt(i, l, v) ==
    /\ handles[i].kind = "none"
    /\ LET a == SetH(AudioWorld, i,
                    [NoHandle EXCEPT !.kind = "music", !.loop = l,
                                     !.channels = 2, !.volume = v])
       IN  Outcome(MusPlayInner(a, i), Called("create", i, 0))

\* play.ts set volume(val): volume = Math.max(val, 0).
SndSetVolume(h, val) == [h EXCEPT !.volume = Max(val, 0)]
SoundSetVolume(i, val) ==
    /\ IsSound(i)
    /\ Outcome(SetH(AudioWorld, i, SndSetVolume(handles[i], val)),
               Called("volume", i, 0))

\* play.ts set pan(p): pan = Math.max(-1, Math.min(1, p)).
SndSetPan(h, pn) == [h EXCEPT !.pan = Max(-GainOne, Min(GainOne, pn))]
SoundSetPan(i, pn) ==
    /\ IsSound(i)
    /\ Outcome(SetH(AudioWorld, i, SndSetPan(handles[i], pn)),
               Called("pan", i, 0))

\* playMusic set volume(val): volume = clamp(val, 0, 1).
MusSetVolume(h, val) == [h EXCEPT !.volume = clamp(val, 0, GainOne)]
MusicSetVolume(i, val) ==
    /\ IsMusic(i)
    /\ Outcome(SetH(AudioWorld, i, MusSetVolume(handles[i], val)),
               Called("volume", i, 0))

\* playMusic set pan(p): warns and stores nothing.
MusicSetPan(i, pn) ==
    /\ IsMusic(i)
    /\ Outcome(AudioWorld, Called("pan", i, 0))

InitMixVars ==
    /\ handles = [i \in Handles |-> NoHandle]
    /\ queue = <<>>
    /\ now = 0
    /\ deviceChannels = 2
    /\ masterVolume \in {1, GainOne}
    /\ lastCall = NoCall

NextMix ==
    \/ \E i \in Handles, l \in BOOLEAN, c \in ChannelCounts,
          v \in VolumeInputs, pn \in PanInputs : PlaySoundOpt(i, l, c, v, pn)
    \/ \E i \in Handles, l \in BOOLEAN, v \in VolumeInputs :
          PlayMusicOpt(i, l, v)
    \/ \E i \in Handles, n \in FrameCounts : MusicLoaded(i, n, 2)
    \/ \E i \in Handles, v \in VolumeInputs : SoundSetVolume(i, v)
    \/ \E i \in Handles, pn \in PanInputs : SoundSetPan(i, pn)
    \/ \E i \in Handles, v \in VolumeInputs : MusicSetVolume(i, v)
    \/ \E i \in Handles, pn \in PanInputs : MusicSetPan(i, pn)
    \/ \E i \in Handles : TimerFires(i)
    \/ DevicePlays

(***************************************************************************)
(* Speed and detune                                                        *)
(***************************************************************************)

\* Values a program passes as opt.speed or assigns to speed, in units of
\* 1 / SubFrames, and as opt.detune or assigns to detune, in octaves (units
\* of 1200 cents).
SpeedInputs == {0, SubFrames \div 2, SubFrames, 2 * SubFrames}
\* Lengths of the decoded buffers, the empty one included.
BufferLengths == {0} \cup FrameCounts
DetuneInputs == {-1, 0, 1}

\* Math.log2(0) * 1200.
NegInfinity == -1000

\* Math.pow(2, d / 1200) as a speed, for a detune of d octaves.
Pow2(d) ==
    IF d = NegInfinity THEN 0
    ELSE IF d >= 0 THEN SubFrames * 2 ^ d
    ELSE SubFrames \div 2 ^ (0 - d)

\* Math.log2(rate) * 1200 in octaves, for the speeds of the model.
Log2(rate) ==
    IF rate = 0 THEN NegInfinity
    ELSE CHOOSE d \in DetuneInputs : Pow2(d) = rate

\* play(src, opt) for a sound whose data is decoded: speed = opt.speed ?? 1
\* and detune = opt.detune ?? 0 are stored side by side.
PlaySoundRate(i, l, sp, d) ==
    /\ handles[i].kind = "none"
    /\ \E frameCount \in BufferLengths :
        LET a == SetH(AudioWorld, i,
                     [NoHandle EXCEPT !.kind = "sound", !.loop = l,
                                      !.speed = sp, !.detune = d])
        IN  Outcome(SndStart(a, i, frameCount, 1), Called("create", i, 0))

\* play.ts set speed(val): speed = val.
SndSetSpeed(h, val) == [h EXCEPT !.speed = val]
SoundSetSpeed(i, val) ==
    /\ IsSound(i)
    /\ Outcome(SetH(AudioWorld, i, SndSetSpeed(handles[i], val)),
               Called("speed", i, 0))

\* play.ts set detune(val): detune = val; speed = Math.pow(2, detune / 1200).
SndSetDetune(h, val) == [h EXCEPT !.detune = val, !.speed = Pow2(val)]
SoundSetDetune(i, val) ==
    /\ IsSound(i)
    /\ Outcome(SetH(AudioWorld, i, SndSetDetune(handles[i], val)),
               Called("detune", i, 0))

\* playMusic set speed(s): playbackRate = Math.max(s, 0).
MusSetSpeed(h, val) == [h EXCEPT !.speed = Max(val, 0)]
MusicSetSpeed(i, val) ==
    /\ IsMusic(i)
    /\ Outcome(SetH(AudioWorld, i, MusSetSpeed(handles[i], val)),
               Called("speed", i, 0))

\* playMusic set detune(d): playbackRate = Math.pow(2, d / 1200).
MusSetDetune(h, val) == [h EXCEPT !.speed = Pow2(val)]
MusicSetDetune(i, val) ==
    /\ IsMusic(i)
    /\ Outcome(SetH(AudioWorld, i, MusSetDetune(handles[i], val)),
               Called("detune", i, 0))

\* get detune(): the stored detune of a sound; Math.log2(playbackRate) * 1200
\* for music.
GetDetune(h) == IF h.kind = "music" THEN Log2(h.speed) ELSE h.detune

NextRate ==
    \/ \E i \in Handles, l \in BOOLEAN, sp \in SpeedInputs,
          d \in DetuneInputs : PlaySoundRate(i, l, sp, d)
    \* playMusic reads neither opt.speed nor opt.detune: playbackRate = 1
    \/ \E i \in Handles, l \in BOOLEAN : PlayMusic(i, FALSE, l)
    \/ \E i \in Handles, n \in BufferLengths : MusicLoaded(i, n, 2)
    \/ \E i \in Handles, sp \in SpeedInputs : SoundSetSpeed(i, sp)
    \/ \E i \in Handles, d \in DetuneInputs : SoundSetDetune(i, d)
    \/ \E i \in Handles, sp \in SpeedInputs : MusicSetSpeed(i, sp)
    \/ \E i \in Handles, d \in DetuneInputs : MusicSetDetune(i, d)
    \/ \E i \in Handles : TimerFires(i)
    \/ DevicePlays

(***************************************************************************)
(* Seek                                                                    *)
(***************************************************************************)

\* Arguments a program passes to seek(), in seconds: before the start, at
\* the start, inside the buffer and past its end.
SeekInputs == {-1, 0, 1, 2}

NextSeek ==
    \/ \E i \in Handles, p \in BOOLEAN, l \in BOOLEAN, n \in FrameCounts :
            PlaySound(i, p, l, 0, TRUE, n, 1)
    \/ \E i \in Handles, p \in BOOLEAN, l \in BOOLEAN : PlayMusic(i, p, l)
    \/ \E i \in Handles, n \in FrameCounts : MusicLoaded(i, n, 2)
    \/ \E i \in Handles, t \in SeekInputs : SoundSeek(i, t)
    \/ \E i \in Handles, t \in SeekInputs : MusicSeek(i, t)
    \/ \E i \in Handles, p \in BOOLEAN : SoundSetPaused(i, p)
    \/ \E i \in Handles, p \in BOOLEAN : MusicSetPaused(i, p)
    \/ \E i \in Handles : TimerFires(i)
    \/ DevicePlays

(***************************************************************************)
(* quit and onCleanup                                                      *)
(***************************************************************************)

\* The callbacks a program registers for cleanup.
Cleanups == {"c1", "c2"}
\* Callbacks registered at once, and pending quit requests.
MaxCleanups == 2
MaxQuits == 1

InitQuitVars ==
    /\ gc = <<>>
    /\ frameEndOnce = 0
    /\ gfxDestroyed = FALSE
    /\ windowDestroyed = FALSE
    /\ cleaned = <<>>
    /\ endBit = 0

\* onCleanup(action): _k.gc.push(action).
OnCleanup(c) ==
    /\ Len(gc) < MaxCleanups
    /\ gc' = Append(gc, c)
    /\ UNCHANGED <<frameEndOnce, gfxDestroyed, windowDestroyed, cleaned,
                   endBit>>
    /\ UNCHANGED frameVars
    /\ UNCHANGED NotQuit

\* quit(): registers a once-handler on "frameEnd" and returns.
Quit ==
    /\ frameEndOnce < MaxQuits
    /\ frameEndOnce' = frameEndOnce + 1
    /\ UNCHANGED <<gc, gfxDestroyed, windowDestroyed, cleaned, endBit>>
    /\ UNCHANGED frameVars
    /\ UNCHANGED NotQuit

\* app.quit(), the quit of initApp: its first statement throws, the
\* assignment state.stopped = true sits in a comment below it.
appQuit == "throws"

\* The game triggers "frameEnd" when a frame's update is over (the trigger
\* is outside the files of the model).  A handler of quit() calls
\* app.quit() first: the exception ends the handler, so ggl.destroy(), the
\* gc callbacks and app.window.destroy() are not reached.  Whether the
\* event system still drops a once-handler that threw is not decided by
\* these files: both outcomes are allowed.
FrameEnd ==
    /\ started
    /\ endBit' = 1 - endBit
    /\ IF frameEndOnce = 0
       THEN UNCHANGED <<stopped, gfxDestroyed, windowDestroyed, cleaned,
                        frameEndOnce>>
       ELSE IF appQuit = "throws"
       THEN /\ frameEndOnce' \in {frameEndOnce, frameEndOnce - 1}
            /\ UNCHANGED <<stopped, gfxDestroyed, windowDestroyed, cleaned>>
       ELSE /\ frameEndOnce' = 0
            /\ stopped' = TRUE
            /\ gfxDestroyed' = TRUE
            /\ cleaned' = cleaned \o gc
            /\ windowDestroyed' = TRUE
    /\ UNCHANGED gc
    /\ UNCHANGED <<isHidden, skipTime, dt, restDt, time, numFrames, desiredDt,
                   started, loopPending, fixedAccumulatedDt, accumulatedDt,
                   nFixed, nUpdate>>
    /\ UNCHANGED NotQuit

NextQuit ==
    \/ Run
    \/ \E e \in {1, MaxElapsed} : Frame(e)
    \/ \E c \in Cleanups : OnCleanup(c)
    \/ Quit
    \/ FrameEnd

(***************************************************************************)
(* Specifications                                                          *)
(***************************************************************************)

InitButton ==
    /\ InitButtonVars
    /\ InitQuitVars
    /\ InitWindowVars
    /\ InitFrameVars
    /\ desiredDt = 0
    /\ InitInputVars
    /\ InitAudioVars
    /\ deviceChannels = 2

SpecButton == InitButton /\ [][NextButton]_vars

InitFrame ==
    /\ InitButtonVars
    /\ InitQuitVars
    /\ InitWindowVars
    /\ InitFrameVars
    /\ InitInputVars
    /\ InitAudioVars
    /\ deviceChannels = 2

SpecFrame == InitFrame /\ [][NextFrame]_vars

SpecStop == InitFrame /\ [][NextStop]_vars

InitQuit ==
    /\ InitFrame
    /\ desiredDt = 0
SpecQuit == InitQuit /\ [][NextQuit]_vars

SpecHidden == InitFrame /\ [][NextHidden]_vars

InitInput ==
    /\ InitButtonVars
    /\ InitQuitVars
    /\ InitWindowVars
    /\ InitFrameVars
    /\ desiredDt = 0
    /\ InitInputVars
    /\ InitAudioVars
    /\ deviceChannels = 2

SpecInput == InitInput /\ [][NextInput]_vars

InitAudio ==
    /\ InitButtonVars
    /\ InitQuitVars
    /\ InitWindowVars
    /\ InitFrameVars
    /\ desiredDt = 0
    /\ InitInputVars
    /\ InitAudioVars
    /\ deviceChannels = 2

SpecAudio == InitAudio /\ [][NextAudio]_vars

InitPair ==
    /\ InitButtonVars
    /\ InitQuitVars
    /\ InitWindowVars
    /\ InitFrameVars
    /\ desiredDt = 0
    /\ InitInputVars
    /\ InitPairVars

SpecPair == InitPair /\ [][NextPair]_vars

InitMix ==
    /\ InitButtonVars
    /\ InitQuitVars
    /\ InitWindowVars
    /\ InitFrameVars
    /\ desiredDt = 0
    /\ InitInputVars
    /\ InitMixVars

SpecMix == InitMix /\ [][NextMix]_vars

InitRate ==
    /\ InitButtonVars
    /\ InitQuitVars
    /\ InitWindowVars
    /\ InitFrameVars
    /\ desiredDt = 0
    /\ InitInputVars
    /\ InitAudioVars
    /\ deviceChannels = 2

SpecRate == InitRate /\ [][NextRate]_vars

SpecSeek == InitRate /\ [][NextSeek]_vars

InitDevices ==
    /\ InitButtonVars
    /\ InitQuitVars
    /\ InitWindowVars
    /\ InitFrameVars /\ desiredDt = 0
    /\ InitInputVars
    /\ InitAudioVars /\ deviceChannels = 2
SpecDevices == InitDevices /\ [][NextDevices]_vars

SpecPointer == InitDevices /\ [][NextPointer]_vars

(***************************************************************************)
(* Properties of ButtonState                                               *)
(***************************************************************************)

\* C2: press(s) immediately followed by release(s), with no update() in
\* between, leaves s in released, not in down and not in pressed, whatever
\* the ButtonState was before.
C2_PressReleaseRetracts ==
    \A s \in Symbols :
        (Len(hist) >= 2 /\ PrevCall = Call("press", s)
                       /\ LastCall = Call("release", s))
            => (s \in bs.released /\ s \notin bs.down /\ s \notin bs.pressed)

\* A press and release of s in one frame, while another symbol is held.
C2_Witness ==
    \E s \in Symbols :
        /\ Len(hist) >= 2
        /\ PrevCall = Call("press", s)
        /\ LastCall = Call("release", s)
        /\ s \in bs.released
        /\ bs.down # {}

\* C3: press(s) followed by update(), with no release(s) in between, leaves
\* s in down, not in pressed and not in released, whatever the ButtonState
\* was before.
C3_PressUpdateHolds ==
    \A s \in Symbols :
        (Len(hist) >= 2 /\ PrevCall = Call("press", s)
                       /\ LastCall = Call("update", "none"))
            => (s \in bs.down /\ s \notin bs.pressed /\ s \notin bs.released)

\* s was released, pressed again and the frame ended: s is held and carries
\* no edge.
C3_Witness ==
    \E s \in Symbols :
        /\ Len(hist) = 3
        /\ hist[1] = Call("release", s)
        /\ hist[2] = Call("press", s)
        /\ hist[3] = Call("update", "none")
        /\ s \in bs.down

\* C4: in every reachable ButtonState, pressed is a subset of down.
C4_PressedSubsetDown == bs.pressed \subseteq bs.down

\* A release has just retracted one symbol while another press edge stands.
C4_Witness ==
    /\ Len(hist) >= 1
    /\ LastCall.op = "release"
    /\ bs.pressed # {}
    /\ bs.pressed # bs.down

\* C5 as stated: in every step a symbol leaves down exactly when the step
\* adds it to released; no step adds to released a symbol that was not down.
C5_Original ==
    [][\A s \in Symbols :
          /\ (s \in bs.down /\ s \notin bs'.down) => s \in bs'.released
          /\ (s \notin bs.released /\ s \in bs'.released) => s \in bs.down]_vars

\* C5 as amended: a symbol leaves down only in a step that adds it to
\* released, and released gains a symbol only by release of that symbol
\* (which also happens when the symbol was not down).
C5_LeavesDownOnlyByRelease ==
    [][\A s \in Symbols :
          /\ (s \in bs.down /\ s \notin bs'.down) => s \in bs'.released
          /\ (s \notin bs.released /\ s \in bs'.released)
                => hist'[Len(hist')] = Call("release", s)]_vars

\* s was pressed in one frame and released in a later one.
C5_Witness ==
    \E s \in Symbols :
        /\ hist = <<Call("press", s), Call("update", "none"), Call("release", s)>>
        /\ s \in bs.released
        /\ s \notin bs.down

(***************************************************************************)
(* Properties of the frame scheduler                                       *)
(***************************************************************************)

\* A step that processes a frame whose skip-time flag is not set.
ProcessedFrameStep == numFrames' = numFrames + 1 /\ ~skipTime

\* The time the fixed-step loop of that frame starts from: the remainder
\* carried from earlier frames plus the frame's own time (dt' afterwards).
FrameAccumulated == fixedAccumulatedDt + dt'

\* C6 as stated: in every processed frame whose skip-time flag is not set,
\* fixedUpdate runs once per whole fixed step contained in the accumulated
\* time, and afterwards 0 <= restDt < fixedDt.
C6_Original ==
    [][ProcessedFrameStep =>
          /\ nFixed' - nFixed = FrameAccumulated \div FixedDt
          /\ 0 <= restDt' /\ restDt' < FixedDt]_vars

\* C6 as amended: fixedUpdate runs while the accumulated time exceeds one
\* fixed step, that is ceil(acc / fixedDt) - 1 times, restDt is what is left
\* and 0 < restDt <= fixedDt; restDt = fixedDt exactly when the accumulated
\* time is a whole number of steps.  A single tick of 0.05 s on an empty
\* accumulator (10 units, fixedDt = 4 units) runs fixedUpdate twice.
C6_FixedStepsWhileExceeding ==
    [][ProcessedFrameStep =>
          LET calls == nFixed' - nFixed
          IN  /\ calls = ((FrameAccumulated + FixedDt - 1) \div FixedDt) - 1
              /\ restDt' = FrameAccumulated - calls * FixedDt
              /\ 0 < restDt' /\ restDt' <= FixedDt
              /\ (restDt' = FixedDt) <=> (FrameAccumulated % FixedDt = 0)
              /\ (fixedAccumulatedDt = 0 /\ dt' = 10) => (calls = 2 /\ restDt' = 2)]_vars

\* The first processed frame was a single tick of 0.05 s: two fixed updates.
C6_Witness ==
    /\ numFrames = 1
    /\ dt = 10
    /\ nFixed = 2
    /\ restDt = 2
    /\ nUpdate = 1

(***************************************************************************)
(* Properties of the input reconciliation                                  *)
(***************************************************************************)

\* The virtual buttons whose binding is exactly two keys and nothing else.
TwoKeyButtons ==
    {b \in Buttons : /\ Len(buttons[b].keyboard) = 2
                     /\ buttons[b].keyboardCode = <<>>
                     /\ buttons[b].mouse = <<>>
                     /\ buttons[b].gamepad = <<>>}

\* C1: a virtual button bound to two keys is in the virtual-button down set
\* iff at least one of its two keys is in the keyboard down set, after any
\* sequence of key-down / key-up events and frames.
C1_DownIffAnyKeyDown ==
    \A b \in TwoKeyButtons :
        (b \in buttonState.down)
            <=> (\E i \in 1 .. 2 : buttons[b].keyboard[i] \in keyState.down)

(***************************************************************************)
(* Properties of the playback handles                                      *)
(***************************************************************************)

Abs(x) == IF x < 0 THEN -x ELSE x

\* The samples of output frame j of the chunk a handle rendered last.
FrameSamples(h, j) ==
    {h.chunk[k] : k \in ((j - 1) * deviceChannels + 1) .. (j * deviceChannels)}

\* C7: when paused = false resumes a handle that paused = true stopped while
\* it was playing, with no seek, stop or play in between, the first source
\* frame rendered is the one under the cursor at the time of the pause.
C7_ResumeKeepsCursor ==
    \A i \in Handles :
        LET h == handles[i]
        IN  (/\ lastCall = Called("paused", i, 0)
             /\ h.resumeFrom >= 0
             /\ Floor(h.resumeFrom) < h.frames)
                => (h.src # <<>> /\ h.src[1] = Floor(h.resumeFrom))

\* C8: right after seek(t) on a loaded, paused handle, with t within the
\* duration, time() is within one sample of t.
C8_SeekThenTime ==
    \A i \in Handles, t \in SeekTimes :
        LET h == handles[i]
        IN  (/\ lastCall = Called("seek", i, t)
             /\ h.loaded = "yes"
             /\ h.paused
             /\ t * SampleRate <= h.frames)
                => IF h.kind = "sound"
                   THEN Abs(SndGetTime(AudioWorld, i)
                            - t * TicksPerSec * SampleRate) <= TicksPerSec
                   ELSE Abs(MusTime(AudioWorld, i)
                            - t * SampleRate * SubFrames) <= SubFrames

\* C9: at speed 1 a playback run emits at most one "end", none while it is
\* still playing and one once it has run out (the handle is loaded, not
\* paused and no longer playing); once "end" was emitted every source frame
\* from the start of the run to the last one has been rendered, the last
\* chunk holds source frames followed by silence only, and every silent
\* frame is zero.
C9_EndOncePerRun ==
    \A i \in Handles :
        LET h == handles[i]
        IN  (h.kind # "none" /\ h.speed = SubFrames) =>
                /\ h.ends <= 1
                /\ h.isPlaying => h.ends = 0
                /\ (h.loaded = "yes" /\ ~h.paused /\ ~h.isPlaying) => h.ends = 1
                /\ \A j \in DOMAIN h.src :
                        h.src[j] = -1 => FrameSamples(h, j) = {0}
                /\ h.ends = 1 =>
                        /\ (h.from .. (h.frames - 1)) \subseteq h.rendered
                        /\ \A j, k \in DOMAIN h.src :
                                (j < k /\ h.src[j] = -1) => h.src[k] = -1

\* A sound played from frame 0 to its end: the last chunk holds the last
\* source frame and then silence.
C9_Witness ==
    \E i \in Handles :
        LET h == handles[i]
        IN  /\ h.kind = "sound" /\ ~h.loop /\ h.ends = 1 /\ h.from = 0
            /\ h.frames = 3 /\ h.rendered = 0 .. 2
            /\ h.src[1] = 2 /\ h.src[Len(h.src)] = -1

\* C10: stop() leaves no render timer of the handle pending, the device
\* queue empty, the handle paused and its cursor at 0; and from stop() to
\* the next play() or paused = false the handle enqueues no chunk.
C10_StopQuiesces ==
    [][\A i \in Handles :
          /\ lastCall' = Called("stop", i, 0) =>
                /\ handles'[i].timers = 0
                /\ queue' = <<>>
                /\ handles'[i].paused
                /\ handles'[i].pos = 0
          /\ (handles[i].halted /\ handles'[i].halted) =>
                handles'[i].enq = handles[i].enq]_vars

IsPrefix(s, t) == Len(s) <= Len(t) /\ SubSeq(t, 1, Len(s)) = s

\* The chunks of handle i in a device queue q, in order.
RECURSIVE ChunksOf(_, _)
ChunksOf(q, i) ==
    IF q = <<>> THEN <<>>
    ELSE (IF Head(q) = i THEN <<i>> ELSE <<>>) \o ChunksOf(Tail(q), i)

\* C11: a call on handle A (play request, paused, stop, seek, play) leaves
\* every field of another handle B as it was and removes none of the chunks
\* B has appended to the device queue.
C11_HandlesIndependent ==
    [][\A A \in Pair, B \in Pair :
          (A # B /\ lastCall'.op # "none" /\ lastCall'.h = A) =>
              /\ handles'[B] = handles[B]
              /\ IsPrefix(ChunksOf(queue, B), ChunksOf(queue', B))]_vars

\* C12: a handle whose source is not decoded has rendered nothing, is not
\* playing and has no timer pending; the step in which decoding completes
\* renders the first chunk iff the handle is not paused at that moment, and
\* a handle paused at that moment is left not playing and without a timer.
C12_StartsOnDecodeUnlessPaused ==
    [][\A i \in Handles :
          LET h == handles[i]
              g == handles'[i]
          IN  /\ (g.kind # "none" /\ g.loaded # "yes") =>
                    /\ g.enq = 0 /\ g.chunk = <<>>
                    /\ ~g.isPlaying /\ g.timers = 0
                    /\ queue' = <<>>
              /\ (h.loaded = "no" /\ g.loaded = "yes") =>
                    ((/\ g.enq # h.enq
                      /\ g.src # <<>>
                      /\ queue' = Append(queue, i)) <=> ~g.paused)
              /\ (h.loaded = "no" /\ g.loaded = "yes" /\ g.paused) =>
                    (~g.isPlaying /\ g.timers = 0)]_vars

\* A music track was requested, stopped before it was decoded and then
\* decoded: nothing was rendered.  (No call and no clock tick came last, and
\* no timer or chunk ever existed, so the step before was the decode.)
C12_Witness ==
    \E i \in Handles :
        LET h == handles[i]
        IN  /\ h.kind = "music" /\ h.loaded = "yes" /\ h.halted
            /\ h.enq = 0 /\ h.chunk = <<>> /\ lastCall = NoCall /\ now = 0

(***************************************************************************)
(* Order of the notifications of one frame                                 *)
(***************************************************************************)

EdgeEvents == {"keyPress", "keyRelease", "mousePress", "mouseRelease",
               "buttonPress", "buttonRelease", "gamepadButtonPress",
               "gamepadButtonRelease"}
DownReplays == {"keyDown", "mouseDown", "buttonDown"}

\* C13: among the notifications of one frame's input processing, no
\* keyDown/mouseDown/buttonDown replay comes before an edge-triggered press
\* or release notification (key, mouse, virtual button or gamepad button).
C13_EdgesBeforeDownReplay ==
    \A i \in DOMAIN log, j \in DOMAIN log :
        (i < j /\ log[i][1] \in DownReplays) => log[j][1] \notin EdgeEvents

\* The notifications a deferred reaction can emit.
ReactionEvents == {"charInput", "keyPressRepeat", "keyPress", "keyRelease",
                   "mousePress", "mouseRelease", "buttonPress",
                   "buttonRelease", "scroll", "mouseMove"}

Count(l, ev) == Cardinality({i \in DOMAIN l : l[i][1] = ev})

\* C15: when mouse-move events were raised since the previous frame, the
\* input processing sets the moved flag, sets position and movement to those
\* of the last move event and emits mouseMove exactly once.
C15_MovesCoalesced ==
    [][(phase = "collect" /\ phase' = "update" /\ moves # <<>>) =>
          /\ isMouseMoved'
          /\ mousePos' = moves[Len(moves)].pos
          /\ mouseDeltaPos' = moves[Len(moves)].delta
          /\ Count(log', "mouseMove") = 1]_vars

(***************************************************************************)
(* Gamepads                                                                *)
(***************************************************************************)

\* The gamepad buttons some connected gamepad holds down.
DownOnSomeGamepad ==
    UNION {gamepadStates[j].buttonState.down : j \in DOMAIN gamepadStates}

\* C16: after a gamepad poll the merged gamepad down set holds exactly the
\* buttons that are down on at least one connected gamepad.
C16_MergedDownIffSomeGamepadDown ==
    phase = "update" =>
        mergedGamepadState.buttonState.down = DownOnSomeGamepad

\* controller.buttons[name] of the device gamepad j stands for: what the
\* device reports for the button at position i.
ReportedPressed(j, i) ==
    DeviceAt(sdlDevices, j).buttons[ControllerButtonKeys[i + 1]]

\* C17: after a poll, a mapped button is in a tracked gamepad's down set
\* exactly when the device reported that button as pressed in the poll.
C17_DownIffReportedPressed ==
    phase = "update" =>
        \A j \in DOMAIN gamepadStates :
            \A i \in DOMAIN MapFor(DeviceAt(sdlDevices, j).name).buttons :
                (MapFor(DeviceAt(sdlDevices, j).name).buttons[i]
                        \in gamepadStates[j].buttonState.down)
                    <=> ReportedPressed(j, i)

\* How often a log holds the notification n.
Times(l, n) == Cardinality({i \in DOMAIN l : l[i] = n})

Tracked(g) == {g[i] : i \in DOMAIN g}
Live(devs) == 0 .. Len(devs) - 1

\* C19: a poll drops every tracked index without a live device from the
\* tracked list and the state table with one gamepadDisconnect each,
\* registers every live index not yet tracked with one gamepadConnect each,
\* and leaves tracked indices = live indices = keys of the state table.
C19_PollDiffsDevices ==
    [][(phase = "collect" /\ phase' = "update") =>
          LET gone == Tracked(gamepads) \ Live(sdlDevices)
              new == Live(sdlDevices) \ Tracked(gamepads)
          IN  /\ \A j \in gone :
                    Times(log', GpNote("gamepadDisconnect", "", j)) = 1
              /\ Count(log', "gamepadDisconnect") = Cardinality(gone)
              /\ \A j \in new :
                    Times(log', GpNote("gamepadConnect", "", j)) = 1
              /\ Count(log', "gamepadConnect") = Cardinality(new)
              /\ Tracked(gamepads') = Live(sdlDevices)
              /\ DOMAIN gamepadStates' = Live(sdlDevices)
              /\ Len(gamepads') = Cardinality(Live(sdlDevices))]_vars

\* A poll has dropped one of two gamepads and kept the other.
C19_Witness ==
    /\ phase = "update"
    /\ Times(log, GpNote("gamepadDisconnect", "", 1)) = 1
    /\ gamepads = <<0>>
    /\ DOMAIN gamepadStates = {0}
    /\ Len(sdlDevices) = 1

(***************************************************************************)
(* Stopping the frame scheduler                                            *)
(***************************************************************************)

\* C20: once the stopped flag is set it stays set, neither the fixed-update
\* nor the update callback is invoked again, and no further frame is
\* scheduled: a frame that was already scheduled returns without
\* rescheduling.
C20_StoppedHaltsScheduler ==
    [][stopped =>
          /\ stopped'
          /\ nFixed' = nFixed
          /\ nUpdate' = nUpdate
          /\ (loopPending' => loopPending)
          /\ (numFrames' = numFrames /\ time' = time)]_vars

\* The loop ran, was stopped, and its scheduled frame has returned.
C20_Witness ==
    stopped /\ started /\ ~loopPending /\ nUpdate > 0 /\ nFixed > 0

(***************************************************************************)
(* Shutdown                                                                *)
(***************************************************************************)

\* C21: the first "frameEnd" after quit() was requested sets the stopped
\* flag, destroys the graphics context, runs every callback registered with
\* onCleanup once, in registration order, and destroys the window.
C21_QuitTearsDown ==
    [][(endBit' # endBit /\ frameEndOnce > 0) =>
          /\ stopped'
          /\ gfxDestroyed'
          /\ cleaned' = cleaned \o gc
          /\ windowDestroyed']_vars

(***************************************************************************)
(* The hidden window                                                       *)
(***************************************************************************)

\* C22: a step taken while the app is hidden invokes neither callback and
\* changes no time value, accumulator or frame counter, and does not end the
\* loop: whenever run() has been called and the app is not stopped, a frame
\* is scheduled, so frames go on once the app is shown.
C22_HiddenIdlesButReschedules ==
    [][/\ isHidden =>
            /\ nFixed' = nFixed /\ nUpdate' = nUpdate
            /\ dt' = dt /\ restDt' = restDt /\ time' = time
            /\ numFrames' = numFrames
            /\ accumulatedDt' = accumulatedDt
            /\ fixedAccumulatedDt' = fixedAccumulatedDt
       /\ (started' /\ ~stopped') => loopPending']_vars

\* The app was hidden while the loop was running: frames that run now
\* leave every counter alone and the next frame stays scheduled.
C22_Witness ==
    /\ started /\ ~stopped /\ isHidden
    /\ loopPending /\ nUpdate > 0 /\ numFrames < MaxFrames

(***************************************************************************)
(* The clamp on a frame's real time                                        *)
(***************************************************************************)

\* C23: one tick adds at most MaxRealDt (0.25 s) to the accumulator however
\* long the stall before it; without a frame-rate cap dt never exceeds
\* MaxRealDt and one frame calls fixedUpdate at most
\* (MaxRealDt + FixedDt) / FixedDt times.
C23_RealDtClamped ==
    [][/\ accumulatedDt' - accumulatedDt <= MaxRealDt
       /\ desiredDt = 0 =>
            /\ dt' <= MaxRealDt
            /\ (nFixed' - nFixed) * FixedDt <= MaxRealDt + FixedDt]_vars

\* The first frame came after a stall longer than the clamp: dt is the
\* clamp itself and fixedUpdate ran for it.
C23_Witness ==
    /\ desiredDt = 0
    /\ numFrames = 1
    /\ dt = MaxRealDt
    /\ nFixed * FixedDt >= MaxRealDt - FixedDt

(***************************************************************************)
(* The down replay and resetInput                                          *)
(***************************************************************************)

\* C24: an input processing emits exactly one keyDown for each key in the
\* keyboard down set, one mouseDown for each button in the mouse down set
\* and one buttonDown for each virtual button in the virtual-button down
\* set, the sets being those the deferred reactions left, and none for a
\* symbol that is not down.
C24_OneDownPerHeldSymbol ==
    [][(phase = "collect" /\ phase' = "update") =>
          /\ \A k \in Keys :
                Times(log', Note("keyDown", k))
                    = IF k \in keyState'.down THEN 1 ELSE 0
          /\ \A m \in Range(MOUSE_BUTTONS) :
                Times(log', Note("mouseDown", m))
                    = IF m \in mouseState'.down THEN 1 ELSE 0
          /\ \A b \in Buttons :
                Times(log', Note("buttonDown", b))
                    = IF b \in buttonState'.down THEN 1 ELSE 0
          /\ Count(log', "keyDown") = Cardinality(keyState'.down)
          /\ Count(log', "mouseDown") = Cardinality(mouseState'.down)
          /\ Count(log', "buttonDown") = Cardinality(buttonState'.down)]_vars

\* A key and a mouse button went down in this frame: both are replayed with
\* the virtual buttons bound to them, the key that is up is not.
C24_Witness ==
    /\ phase = "update"
    /\ keyState.pressed = {"a"} /\ keyState.down = {"a"}
    /\ mouseState.pressed = {"left"}
    /\ buttonState.down = {"jump", "fire"}
    /\ Times(log, Note("keyDown", "a")) = 1
    /\ Times(log, Note("keyDown", "b")) = 0
    /\ Times(log, Note("mouseDown", "left")) = 1
    /\ Times(log, Note("buttonDown", "jump")) = 1
    /\ Times(log, Note("buttonDown", "fire")) = 1

\* update() has emptied the three transient sets of b and kept its down set.
Cleared(b, c) ==
    /\ c.pressed = {} /\ c.pressedRepeat = {} /\ c.released = {}
    /\ c.down = b.down

\* Every stick that had a vector has the zero vector, no stick was added.
SticksZeroed(m, n) ==
    /\ DOMAIN n = DOMAIN m
    /\ \A k \in DOMAIN m : n[k] = IF m[k] = <<>> THEN <<>> ELSE <<0, 0>>

\* C25: resetInput empties pressed, pressedRepeat and released of the
\* keyboard, mouse, virtual-button, merged-gamepad and every per-gamepad
\* state and keeps their down sets, zeroes the mouse delta and every stick
\* vector, clears the moved flag and the character buffer, and leaves the
\* mouse position and the tracked gamepads unchanged.
C25_ResetClearsTransients ==
    [][(phase = "update" /\ phase' = "collect") =>
          /\ Cleared(keyState, keyState')
          /\ Cleared(mouseState, mouseState')
          /\ Cleared(buttonState, buttonState')
          /\ Cleared(mergedGamepadState.buttonState,
                     mergedGamepadState'.buttonState)
          /\ SticksZeroed(mergedGamepadState.stickState,
                          mergedGamepadState'.stickState)
          /\ DOMAIN gamepadStates' = DOMAIN gamepadStates
          /\ \A j \in DOMAIN gamepadStates :
                /\ Cleared(gamepadStates[j].buttonState,
                           gamepadStates'[j].buttonState)
                /\ SticksZeroed(gamepadStates[j].stickState,
                                gamepadStates'[j].stickState)
          /\ mouseDeltaPos' = <<0, 0>>
          /\ ~isMouseMoved'
          /\ charInputted' = <<>>
          /\ mousePos' = mousePos
          /\ gamepads' = gamepads]_vars

\* resetInput has run on a frame in which a key went down and a gamepad
\* with a deflected stick was polled: the key and the gamepad button stay
\* down, the edge sets are empty and the stick reads zero.
C25_Witness ==
    /\ phase = "collect"
    /\ keyState.down = {"a"} /\ keyState.pressed = {}
    /\ buttonState.down # {} /\ buttonState.pressed = {}
    /\ gamepads = <<0>>
    /\ sdlDevices = polled.devs
    /\ sdlDevices[1].axes = <<1, 0>>
    /\ gamepadStates[0].stickState["left"] = <<0, 0>>
    /\ gamepadStates[0].buttonState.down # {}
    /\ gamepadStates[0].buttonState.pressed = {}
    /\ mergedGamepadState.stickState["left"] = <<0, 0>>
    /\ inputQueue = <<>>

(***************************************************************************)
(* Decode failure                                                          *)
(***************************************************************************)

\* C26: a music handle whose decode failed has never rendered or queued a
\* chunk, has fired no "end", is not playing and has no timer pending,
\* whatever play, paused, seek, stop and loop calls were made on it.
C26_FailedDecodeNeverPlays ==
    \A i \in Handles :
        LET h == handles[i]
        IN  h.loaded = "failed" =>
                /\ h.kind = "music"
                /\ h.enq = 0 /\ h.chunk = <<>> /\ h.src = <<>>
                /\ h.ends = 0
                /\ ~h.isPlaying
                /\ h.timers = 0
                /\ queue = <<>>

\* play() was called on a handle after its decode had failed.
C26_Witness ==
    \E i \in Handles :
        /\ handles[i].loaded = "failed"
        /\ ~handles[i].paused
        /\ lastCall.op = "play" /\ lastCall.h = i

(***************************************************************************)
(* Volume and pan of a rendered chunk                                      *)
(***************************************************************************)

\* The two samples of the source frame at position p of a sound buffer.
SourceLeft(h, p) == Sample(p * h.channels)
SourceRight(h, p) ==
    IF h.channels > 1 THEN Sample(p * h.channels + 1) ELSE SourceLeft(h, p)

\* One output unit: a source sample of 1 at volume 1, pan 0, master 1.
Unity == 2 * GainOne * GainOne * GainOne

\* C27: on a stereo device every frame a sound renders from its source is
\* left = source-left * volume * (1 - max(0, pan)) * master and
\* right = source-right * volume * (1 + min(0, pan)) * master; with pan = 1,
\* volume = 1 and master volume 1 the left output is 0 and the right output
\* is the source sample itself.
C27_StereoPanGains ==
    [][\A i \in Handles :
          LET h == handles[i]
              g == handles'[i]
          IN  (g.kind = "sound" /\ g.enq # h.enq /\ deviceChannels = 2) =>
                \A k \in DOMAIN g.src :
                    g.src[k] >= 0 =>
                        /\ g.chunk[2 * k - 1]
                              = 2 * SourceLeft(g, g.src[k]) * g.volume
                                  * (GainOne - Max(0, g.pan)) * masterVolume
                        /\ g.chunk[2 * k]
                              = 2 * SourceRight(g, g.src[k]) * g.volume
                                  * (GainOne + Min(0, g.pan)) * masterVolume
                        /\ (/\ g.pan = GainOne /\ g.volume = GainOne
                            /\ masterVolume = GainOne) =>
                                /\ g.chunk[2 * k - 1] = 0
                                /\ g.chunk[2 * k]
                                      = Unity * SourceRight(g, g.src[k])]_vars

\* A stereo sound panned fully right at volume 1 and master volume 1 has
\* rendered a chunk: its first frame is silent on the left and carries the
\* source sample on the right.
C27_Witness ==
    \E i \in Handles :
        LET h == handles[i]
        IN  /\ h.kind = "sound" /\ h.channels = 2
            /\ h.pan = GainOne /\ h.volume = GainOne
            /\ masterVolume = GainOne
            /\ h.src # <<>> /\ h.src[1] = 0
            /\ h.chunk[1] = 0
            /\ h.chunk[2] = Unity * Sample(1)

\* C29: the volume of every playback handle is within [0, 1] and its pan
\* within [-1, 1], whatever options it was created with and whatever was
\* assigned to volume and pan since.
C29_VolumeAndPanInRange ==
    \A i \in Handles :
        handles[i].kind # "none" =>
            /\ 0 <= handles[i].volume /\ handles[i].volume <= GainOne
            /\ -GainOne <= handles[i].pan /\ handles[i].pan <= GainOne

\* C28: a chunk rendered by a looping handle with a non-empty buffer leaves
\* the handle playing with no "end" fired, and where the cursor ran past the
\* end of the buffer the chunk goes on from source frame 0; a chunk rendered
\* by a handle that does not loop ends playback and fires "end" once exactly
\* when the cursor ran past the end of the buffer while it was rendered.
C28_LoopWrapsElseEnds ==
    [][\A i \in Handles :
        LET h == handles[i]
            g == handles'[i]
            n == Len(g.src)
        IN  (g.kind # "none" /\ g.enq # h.enq /\ g.frames > 0) =>
                /\ g.loop =>
                        /\ g.isPlaying /\ g.ends = 0
                        /\ \A j \in 1 .. n - 1 :
                                /\ g.src[j] = -1 => g.src[j + 1] = 0
                                /\ g.src[j] = g.frames - 1 =>
                                        g.src[j + 1] \in {-1, 0}
                        /\ g.src[n] = -1 => Floor(g.pos) = 0
                /\ ~g.loop =>
                        IF -1 \in Range(g.src)
                        THEN ~g.isPlaying /\ g.ends = 1
                        ELSE g.isPlaying /\ g.ends = 0]_vars

\* A looping sound rendered its whole buffer, wrapped, and its latest chunk
\* starts again at source frame 0: it is still playing and no "end" fired.
C28_Witness ==
    \E i \in Handles :
        LET h == handles[i]
        IN  /\ h.kind = "sound" /\ h.loop /\ h.isPlaying /\ h.ends = 0
            /\ h.from = 0 /\ h.rendered = 0 .. (h.frames - 1)
            /\ h.src[1] = 0 /\ h.src[Len(h.src)] # -1

\* The virtual buttons bound to the physical key of a keyboard event, by key
\* name or by key code.
BoundToKey(e) ==
    {b \in Buttons : \/ InSeq(KeyOf(e.key), buttons[b].keyboard)
                     \/ InSeq(e.code, buttons[b].keyboardCode)}

\* C30: in a frame whose only queued event is a key-down, a key-down with the
\* repeat flag adds the key to pressedRepeat and emits keyPressRepeat, leaves
\* the pressed and down sets of the keyboard and the whole virtual-button
\* state as they were and emits no keyPress and no buttonPress; a key-down
\* without the flag presses the key, presses every virtual button bound to
\* the key with exactly one buttonPress each, presses no other button, and
\* emits keyPress and keyPressRepeat once each.
C30_KeyDownRepeatOrPress ==
    [][(/\ phase = "collect" /\ phase' = "update"
        /\ Len(inputQueue) = 1 /\ inputQueue[1].type = "keydown") =>
          LET e == inputQueue[1]
              k == KeyOf(e.key)
          IN  /\ Times(log', Note("keyPressRepeat", k)) = 1
              /\ Count(log', "keyPressRepeat") = 1
              /\ IF e.repeat
                 THEN /\ keyState' = pressRepeat(keyState, k)
                      /\ buttonState' = buttonState
                      /\ Count(log', "keyPress") = 0
                      /\ Count(log', "buttonPress") = 0
                 ELSE /\ keyState' = press(keyState, k)
                      /\ buttonState'.pressed = buttonState.pressed \cup BoundToKey(e)
                      /\ buttonState'.down = buttonState.down \cup BoundToKey(e)
                      /\ \A b \in Buttons :
                            Times(log', Note("buttonPress", b))
                                = IF b \in BoundToKey(e) THEN 1 ELSE 0
                      /\ Times(log', Note("keyPress", k)) = 1
                      /\ Count(log', "keyPress") = 1]_vars

\* C31: a frame that is processed while the skip-time flag is set runs no
\* fixed update, leaves dt, restDt, the elapsed time and the fixed-step
\* accumulator as they were, discards the time accumulated for the frame,
\* clears the flag, increments the frame counter and calls the update
\* callback exactly once.
C31_SkippedFrameDiscardsTime ==
    [][(/\ skipTime
        /\ \/ ~skipTime' \/ numFrames' # numFrames \/ nUpdate' # nUpdate
           \/ nFixed' # nFixed \/ dt' # dt \/ restDt' # restDt
           \/ time' # time \/ fixedAccumulatedDt' # fixedAccumulatedDt) =>
          /\ nFixed' = nFixed
          /\ dt' = dt /\ restDt' = restDt /\ time' = time
          /\ fixedAccumulatedDt' = fixedAccumulatedDt
          /\ accumulatedDt' = 0
          /\ ~skipTime'
          /\ numFrames' = numFrames + 1
          /\ nUpdate' = nUpdate + 1]_vars

\* Two frames were processed, one of them timed and the other skipped: the
\* clock, dt, restDt and the fixed-update count hold what the timed frame
\* alone accounts for.
C31_Witness ==
    /\ numFrames = 2 /\ nUpdate = 2 /\ ~skipTime
    /\ dt = FixedDt + 1 /\ time = dt * TimeScale
    /\ nFixed = 1 /\ restDt = 1 /\ accumulatedDt = 0

\* C32: the blur handler does what the focus handler does: it sets the
\* skip-time flag, clears isHidden, triggers "show" and changes nothing
\* else; so isHidden is false in every state the handlers and the frame
\* loop reach, and no window handler triggers "hide".
C32_BlurActsAsFocus ==
    [][/\ ~isHidden' /\ windowEvent'.event # "hide"
       /\ windowEvent' # windowEvent =>
            /\ windowEvent'.handler \in {"focus", "blur"}
            /\ windowEvent'.event = "show"
            /\ skipTime' /\ ~isHidden'
            /\ UNCHANGED <<stopped, dt, restDt, time, numFrames, desiredDt,
                           started, loopPending, fixedAccumulatedDt,
                           accumulatedDt, nFixed, nUpdate>>]_vars

\* The window lost focus while the loop was running and a frame was then
\* processed: the blur handler triggered "show", the app is not hidden and
\* the frame ran as a skipped one.
C32_Witness ==
    /\ windowEvent.handler = "blur" /\ windowEvent.event = "show"
    /\ ~isHidden /\ ~skipTime /\ numFrames = 1 /\ nUpdate = 1 /\ time = 0

\* C33: detune is an alias of speed: on every handle, whatever options it
\* was created with and whatever was assigned to speed and detune since,
\* the speed the renderer uses equals 2 ^ (detune / 1200) of the detune the
\* handle reports.
C33_DetuneAliasOfSpeed ==
    \A i \in Handles :
        handles[i].kind # "none" =>
            handles[i].speed = Pow2(GetDetune(handles[i]))

\* The chunk the music renderer produces from the cursor and the settings of
\* handle state h.
AsMusic(h) == MusFill(h, <<>>, <<>>, 0)

\* The output frames both renderers fill in one chunk.
CommonFrames == Min(SndChunkFrames, MusChunkFrames)

\* C34: whenever a timer renders a chunk of a sound with pan 0, the music
\* renderer, started at the same cursor with the same buffer, volume, speed,
\* loop flag and device format, produces the same output samples from the
\* same source frames over the output frames both chunks cover, and ends
\* playback at the same output frame.
C34_MusicRendersAsSound ==
    [][\A i \in Handles :
        LET h == handles[i]
            g == handles'[i]
            m == AsMusic(h)
        IN  (/\ h.kind = "sound" /\ h.isPlaying /\ h.pan = 0
             /\ g.enq # h.enq /\ h.frames > 0) =>
                /\ SubSeq(g.chunk, 1, CommonFrames * deviceChannels)
                     = SubSeq(m.chunk, 1, CommonFrames * deviceChannels)
                /\ SubSeq(g.src, 1, CommonFrames)
                     = SubSeq(m.src, 1, CommonFrames)
                /\ g.ends > h.ends => m.h.ends > h.ends]_vars

\* C35: a playback handle has at most one render timer pending at any
\* time, whatever timers fired, whether playback ended by itself, and
\* whatever play, seek, paused and stop calls were made on it.
C35_OneTimerPerHandle ==
    \A i \in Handles : handles[i].timers <= 1

\* C36: the fixed-step accumulator conserves time.  A processed frame that
\* is not skipped adds its dt to the fixed-update calls it makes, each worth
\* one fixed step, plus the change of restDt; any other step leaves the
\* calls and restDt alone; so the fixed-update calls made so far times the
\* fixed step, plus restDt, equal the sum of the dt of those frames, which
\* the clock holds scaled by the time scale.
C36_AccumulatorConservesTime ==
    [][/\ IF numFrames' # numFrames /\ ~skipTime
          THEN (nFixed' - nFixed) * FixedDt + (restDt' - restDt) = dt'
          ELSE nFixed' = nFixed /\ restDt' = restDt
       /\ (nFixed' * FixedDt + restDt') * TimeScale = time'
       /\ restDt' = fixedAccumulatedDt']_vars

\* Two timed frames, the second one taking the remainder the first one left
\* over the fixed step: two fixed updates and a remainder account for both.
C36_Witness ==
    /\ numFrames = 2 /\ nFixed = 2 /\ restDt = 1
    /\ dt = FixedDt /\ time = (2 * FixedDt + 1) * TimeScale

\* C37: every call of a chunk renderer returns: no handle, sound or music,
\* looping or not, at any speed and with any buffer, is ever left inside
\* its render loop.
C37_RendererTerminates ==
    \A i \in Handles : ~handles[i].hung

\* C38: a raw key-down, key-up, mouse-down, mouse-up or wheel callback only
\* queues its reaction: the step that queues it changes none of the
\* keyboard, mouse and virtual-button states and emits nothing; these
\* states change only in the steps of processInput and resetInput.
C38_RawCallbacksOnlyDefer ==
    [][/\ Len(inputQueue') > Len(inputQueue) =>
            /\ keyState' = keyState /\ mouseState' = mouseState
            /\ buttonState' = buttonState /\ log' = log /\ log = <<>>
       /\ (\/ keyState' # keyState \/ mouseState' # mouseState
           \/ buttonState' # buttonState \/ log' # log) =>
            \/ phase = "collect" /\ phase' = "update"
            \/ phase = "update" /\ phase' = "collect"]_vars

\* A key and a mouse button are physically held and both events are queued,
\* but no frame has run since: every state is still empty and nothing was
\* emitted.
C38_Witness ==
    /\ phase = "collect" /\ Len(inputQueue) = 2
    /\ inputQueue[1].type = "keydown" /\ inputQueue[2].type = "mousedown"
    /\ heldKeys # {} /\ heldMouse = {0}
    /\ keyState = NewButtonState /\ mouseState = NewButtonState
    /\ buttonState = NewButtonState /\ log = <<>>

\* The cursor a seek() left: the cursor itself, or for a sound that is
\* playing the cursor its restarted playback run set out from.
CursorAfterSeek(h) ==
    IF h.kind = "sound" /\ h.isPlaying THEN h.from * SubFrames ELSE h.pos

\* C39: after seek(t) on a loaded handle, for any t, the playback cursor is
\* within the buffer, from 0 to duration * sampleRate: the seek was
\* ignored or t was clamped.
C39_SeekStaysInBuffer ==
    \A i \in Handles :
        LET h == handles[i]
        IN  (lastCall.op = "seek" /\ lastCall.h = i /\ h.loaded = "yes") =>
                /\ 0 <= CursorAfterSeek(h)
                /\ CursorAfterSeek(h) <= h.frames * SubFrames

====
